---------------------------- MODULE Spec2Model ----------------------------
(***************************************************************************)
(* A model of libchip8: the opcode codec (cpu.rs), the CPU primitives      *)
(* (cpu.rs), memory (mem.rs), display (display.rs), keyboard (input.rs)    *)
(* and the emulator's fetch / decode / execute loop (emulator.rs).         *)
(*                                                                         *)
(* The emulator is the record [cpu, mem, scr, kbd, panic]: the four fields *)
(* of struct Emulator, plus `panic`, which records that a Rust panic       *)
(* (index out of bounds, arithmetic overflow in a build with overflow      *)
(* checks) has aborted the call that was running.                          *)
(***************************************************************************)
EXTENDS Integers, Sequences, FiniteSets, TLC

(***************************************************************************)
(* Program constants.                                                      *)
(***************************************************************************)
MEM_SIZE == 4096
COLS == 64
ROWS == 32
FONT_SIZE_BYTES == 5
START_ADDR == 512
NREGS == 16
NKEYS == 16
U8 == 256
U16 == 65536

(***************************************************************************)
(* Bounds of the model.                                                    *)
(***************************************************************************)
\* API calls the driver makes in one behaviour (iterations of run's loop
\* are not calls: they belong to the one call of run).
MaxCalls == 2
\* Call frames a behaviour may hold (a CALL loop grows the stack for ever).
MaxStack == 3

(***************************************************************************)
(* Bit operations on unsigned integers.                                    *)
(***************************************************************************)
RECURSIVE BitAnd(_, _)
BitAnd(a, b) ==
    IF a = 0 \/ b = 0 THEN 0
    ELSE (a % 2) * (b % 2) + 2 * BitAnd(a \div 2, b \div 2)

RECURSIVE BitOr(_, _)
BitOr(a, b) ==
    IF a = 0 THEN b
    ELSE IF b = 0 THEN a
    ELSE (IF a % 2 = 1 \/ b % 2 = 1 THEN 1 ELSE 0) + 2 * BitOr(a \div 2, b \div 2)

RECURSIVE BitXor(_, _)
BitXor(a, b) ==
    IF a = 0 THEN b
    ELSE IF b = 0 THEN a
    ELSE ((a + b) % 2) + 2 * BitXor(a \div 2, b \div 2)

\* u16 `v << k` (bits shifted past bit 15 are lost) and `v >> k`.
Shl16(v, k) == (v * (2 ^ k)) % U16
Shr(v, k) == v \div (2 ^ k)

\* u8::rotate_left(k), 0 <= k <= 8.
RotateLeft8(b, k) == ((b * (2 ^ (k % 8))) % U8) + (b \div (2 ^ (8 - (k % 8))))

(***************************************************************************)
(* enum Opcode.  An operation is the record [t, x, y, n]: the variant and  *)
(* its operands, in the order the variant declares them; an operand the    *)
(* variant does not have is 0.  Variants with one address (JP, CALL, LDI,  *)
(* JPOFF) hold it in n; variants (register, byte) hold the byte in n.      *)
(***************************************************************************)
Op(t, x, y, n) == [t |-> t, x |-> x, y |-> y, n |-> n]

\* Option<Opcode>::None
NoneOp == Op("None", 0, 0, 0)

AddrVariants == {"JP", "CALL", "LDI", "JPOFF"}
RegByteVariants == {"SE", "SNE", "LD", "ADD", "RND"}
RegRegVariants ==
    {"SER", "LDR", "OR", "AND", "XOR", "ADDR", "SUBR", "SUBRN", "SNER"}
RegVariants ==
    {"SHR", "SHL", "SKP", "SKNP", "KEYSET", "DTSET", "DTGET", "STSET",
     "IINC", "IDIG", "BCD", "REGSSTORE", "REGLOAD"}
NoOperandVariants == {"CLS", "RET"}
Variants ==
    NoOperandVariants \cup AddrVariants \cup RegByteVariants
        \cup RegRegVariants \cup RegVariants \cup {"DRW"}

\* Mutant of Opcode::from: 0x5xyN is taken for SER whatever N is.
from_any_low_nibble_5xy(op) ==
    LET x == BitAnd(Shr(op, 8), 15)
        y == BitAnd(Shr(op, 4), 15)
        m000 == BitAnd(op, 61440)   \* op & 0xF000
        m00F == BitAnd(op, 61455)   \* op & 0xF00F
        m0FF == BitAnd(op, 61695)   \* op & 0xF0FF
    IN  IF m000 = 4096 THEN Op("JP", 0, 0, BitAnd(op, 4095))
        ELSE IF m000 = 8192 THEN Op("CALL", 0, 0, BitAnd(op, 4095))
        ELSE IF op = 224 THEN Op("CLS", 0, 0, 0)
        ELSE IF op = 238 THEN Op("RET", 0, 0, 0)
        ELSE IF m000 = 12288
            THEN Op("SE", Shr(BitAnd(op, 3840), 8), 0, BitAnd(op, 255))
        ELSE IF m000 = 16384
            THEN Op("SNE", Shr(BitAnd(op, 3840), 8), 0, BitAnd(op, 255))
        ELSE IF m000 = 20480
            THEN Op("SER", Shr(BitAnd(op, 3840), 8), Shr(BitAnd(op, 240), 4), 0)
        ELSE IF m000 = 24576 THEN Op("LD", x, 0, BitAnd(op, 255))
        ELSE IF m000 = 28672 THEN Op("ADD", x, 0, BitAnd(op, 255))
        ELSE IF m00F = 32768 THEN Op("LDR", x, y, 0)
        ELSE IF m00F = 32769 THEN Op("OR", x, y, 0)
        ELSE IF m00F = 32770 THEN Op("AND", x, y, 0)
        ELSE IF m00F = 32771 THEN Op("XOR", x, y, 0)
        ELSE IF m00F = 32772 THEN Op("ADDR", x, y, 0)
        ELSE IF m00F = 32773 THEN Op("SUBR", x, y, 0)
        ELSE IF m00F = 32774 THEN Op("SHR", x, 0, 0)
        ELSE IF m00F = 32775 THEN Op("SUBRN", x, y, 0)
        ELSE IF m00F = 32782 THEN Op("SHL", x, 0, 0)
        ELSE IF m00F = 36864 THEN Op("SNER", x, y, 0)
        ELSE IF m000 = 40960 THEN Op("LDI", 0, 0, BitAnd(op, 4095))
        ELSE IF m000 = 45056 THEN Op("JPOFF", 0, 0, BitAnd(op, 4095))
        \* RND takes its second operand from bits 4-7, not from the low byte
        ELSE IF m000 = 49152 THEN Op("RND", x, 0, y)
        ELSE IF m000 = 53248 THEN Op("DRW", x, y, BitAnd(op, 15))
        ELSE IF m0FF = 57502 THEN Op("SKP", x, 0, 0)
        ELSE IF m0FF = 57505 THEN Op("SKNP", x, 0, 0)
        ELSE IF m0FF = 61450 THEN Op("KEYSET", x, 0, 0)
        ELSE IF m0FF = 61461 THEN Op("DTSET", x, 0, 0)
        ELSE IF m0FF = 61447 THEN Op("DTGET", x, 0, 0)
        ELSE IF m0FF = 61464 THEN Op("STSET", x, 0, 0)
        ELSE IF m0FF = 61470 THEN Op("IINC", x, 0, 0)
        ELSE IF m0FF = 61481 THEN Op("IDIG", x, 0, 0)
        ELSE IF m0FF = 61491 THEN Op("BCD", x, 0, 0)
        ELSE IF m0FF = 61525 THEN Op("REGSSTORE", x, 0, 0)
        ELSE IF m0FF = 61541 THEN Op("REGLOAD", x, 0, 0)
        ELSE NoneOp

(***************************************************************************)
(* Opcode::from: the if / else-if chain, in the source's order.            *)
(***************************************************************************)
From(op) ==
    LET x == BitAnd(Shr(op, 8), 15)
        y == BitAnd(Shr(op, 4), 15)
        m000 == BitAnd(op, 61440)   \* op & 0xF000
        m00F == BitAnd(op, 61455)   \* op & 0xF00F
        m0FF == BitAnd(op, 61695)   \* op & 0xF0FF
    IN  IF m000 = 4096 THEN Op("JP", 0, 0, BitAnd(op, 4095))
        ELSE IF m000 = 8192 THEN Op("CALL", 0, 0, BitAnd(op, 4095))
        ELSE IF op = 224 THEN Op("CLS", 0, 0, 0)
        ELSE IF op = 238 THEN Op("RET", 0, 0, 0)
        ELSE IF m000 = 12288
            THEN Op("SE", Shr(BitAnd(op, 3840), 8), 0, BitAnd(op, 255))
        ELSE IF m000 = 16384
            THEN Op("SNE", Shr(BitAnd(op, 3840), 8), 0, BitAnd(op, 255))
        ELSE IF m00F = 20480
            THEN Op("SER", Shr(BitAnd(op, 3840), 8), Shr(BitAnd(op, 240), 4), 0)
        ELSE IF m000 = 24576 THEN Op("LD", x, 0, BitAnd(op, 255))
        ELSE IF m000 = 28672 THEN Op("ADD", x, 0, BitAnd(op, 255))
        ELSE IF m00F = 32768 THEN Op("LDR", x, y, 0)
        ELSE IF m00F = 32769 THEN Op("OR", x, y, 0)
        ELSE IF m00F = 32770 THEN Op("AND", x, y, 0)
        ELSE IF m00F = 32771 THEN Op("XOR", x, y, 0)
        ELSE IF m00F = 32772 THEN Op("ADDR", x, y, 0)
        ELSE IF m00F = 32773 THEN Op("SUBR", x, y, 0)
        ELSE IF m00F = 32774 THEN Op("SHR", x, 0, 0)
        ELSE IF m00F = 32775 THEN Op("SUBRN", x, y, 0)
        ELSE IF m00F = 32782 THEN Op("SHL", x, 0, 0)
        ELSE IF m00F = 36864 THEN Op("SNER", x, y, 0)
        ELSE IF m000 = 40960 THEN Op("LDI", 0, 0, BitAnd(op, 4095))
        ELSE IF m000 = 45056 THEN Op("JPOFF", 0, 0, BitAnd(op, 4095))
        \* RND takes its second operand from bits 4-7, not from the low byte
        ELSE IF m000 = 49152 THEN Op("RND", x, 0, y)
        ELSE IF m000 = 53248 THEN Op("DRW", x, y, BitAnd(op, 15))
        ELSE IF m0FF = 57502 THEN Op("SKP", x, 0, 0)
        ELSE IF m0FF = 57505 THEN Op("SKNP", x, 0, 0)
        ELSE IF m0FF = 61450 THEN Op("KEYSET", x, 0, 0)
        ELSE IF m0FF = 61461 THEN Op("DTSET", x, 0, 0)
        ELSE IF m0FF = 61447 THEN Op("DTGET", x, 0, 0)
        ELSE IF m0FF = 61464 THEN Op("STSET", x, 0, 0)
        ELSE IF m0FF = 61470 THEN Op("IINC", x, 0, 0)
        ELSE IF m0FF = 61481 THEN Op("IDIG", x, 0, 0)
        ELSE IF m0FF = 61491 THEN Op("BCD", x, 0, 0)
        ELSE IF m0FF = 61525 THEN Op("REGSSTORE", x, 0, 0)
        ELSE IF m0FF = 61541 THEN Op("REGLOAD", x, 0, 0)
        ELSE NoneOp

(***************************************************************************)
(* Opcode::to_instr.  The shifts of vx by 8 and of vy by 4 are u16         *)
(* shifts and `|` is bitwise or: operands wider than their field overlap   *)
(* the neighbouring fields.                                                *)
(***************************************************************************)
ToInstr(o) ==
    LET vx == Shl16(o.x % U16, 8)
        vy == Shl16(o.y % U16, 4)
        xy(base) == BitOr(BitOr(base, vx), vy)
        xb(base) == BitOr(BitOr(base, vx), o.n % U16)
        xo(base) == BitOr(base, vx)
    IN  CASE o.t = "CLS" -> 224
          [] o.t = "RET" -> 238
          [] o.t = "JP" -> BitOr(4096, o.n)
          [] o.t = "CALL" -> BitOr(8192, o.n)
          [] o.t = "SE" -> xb(12288)
          [] o.t = "SNE" -> xb(16384)
          [] o.t = "SER" -> xy(20480)
          [] o.t = "LD" -> xb(24576)
          [] o.t = "ADD" -> xb(28672)
          [] o.t = "LDR" -> xy(32768)
          [] o.t = "OR" -> xy(32769)
          [] o.t = "AND" -> xy(32770)
          [] o.t = "XOR" -> xy(32771)
          [] o.t = "ADDR" -> xy(32772)
          [] o.t = "SUBR" -> xy(32773)
          [] o.t = "SHR" -> xo(32774)
          [] o.t = "SUBRN" -> xy(32775)
          [] o.t = "SHL" -> xo(32782)
          [] o.t = "SNER" -> xy(36864)
          [] o.t = "LDI" -> BitOr(40960, o.n)
          [] o.t = "JPOFF" -> BitOr(45056, o.n)
          \* RND shifts its byte operand into bits 4-11
          [] o.t = "RND" -> BitOr(BitOr(49152, vx), Shl16(o.n % U16, 4))
          [] o.t = "DRW" -> BitOr(xy(53248), o.n % U16)
          [] o.t = "SKP" -> xo(57502)
          [] o.t = "SKNP" -> xo(57505)
          [] o.t = "KEYSET" -> xo(61450)
          [] o.t = "DTSET" -> xo(61461)
          [] o.t = "DTGET" -> xo(61447)
          [] o.t = "STSET" -> xo(61464)
          [] o.t = "IINC" -> xo(61470)
          [] o.t = "IDIG" -> xo(61481)
          [] o.t = "BCD" -> xo(61491)
          [] o.t = "REGSSTORE" -> xo(61525)
          [] o.t = "REGLOAD" -> xo(61541)

(***************************************************************************)
(* The emulator value and Rust panics.                                     *)
(***************************************************************************)
NoPanic == "none"
IndexPanic == "index out of bounds"
OverflowPanic == "arithmetic overflow"

Panicked(e) == e.panic # NoPanic
Panic(e, why) == [e EXCEPT !.panic = why]

\* `a; b`: the statement after a panic does not run.
Then(e, F(_)) == IF Panicked(e) THEN e ELSE F(e)

\* An unsigned addition of width w: a build with overflow checks (oc) panics
\* when the sum does not fit, a build without them wraps.
AddOverflows(a, b, w) == a + b >= w
WrapAdd(a, b, w) == (a + b) % w

(***************************************************************************)
(* mem.rs.  cells is the array [u8; 4096], held as the function from the   *)
(* addresses whose byte is not 0 to that byte (Mem::new zeroes the array). *)
(***************************************************************************)
FONT ==
    << <<240, 144, 144, 144, 240>>, <<32, 96, 32, 32, 112>>,
       <<240, 16, 240, 128, 240>>, <<240, 16, 240, 16, 240>>,
       <<144, 144, 240, 16, 16>>, <<240, 128, 240, 16, 240>>,
       <<240, 128, 240, 144, 240>>, <<240, 16, 32, 64, 64>>,
       <<240, 144, 240, 144, 240>>, <<240, 144, 240, 16, 240>>,
       <<240, 144, 240, 144, 144>>, <<224, 144, 224, 144, 224>>,
       <<240, 128, 128, 128, 240>>, <<224, 144, 144, 144, 224>>,
       <<240, 128, 240, 128, 240>>, <<240, 128, 240, 128, 128>> >>

MemNew == [cells |-> << >>, start_addr |-> 0]

\* self.cells[i as usize], for i < 4096
Cell(cells, i) == IF i \in DOMAIN cells THEN cells[i] ELSE 0

SetCell(cells, i, v) ==
    IF v = 0
    THEN [a \in (DOMAIN cells) \ {i} |-> cells[a]]
    ELSE [a \in (DOMAIN cells) \cup {i} |-> IF a = i THEN v ELSE cells[a]]

\* Mem::store: the index panics outside the array.
MemStore(e, i, v) ==
    IF i >= MEM_SIZE THEN Panic(e, IndexPanic)
    ELSE [e EXCEPT !.mem.cells = SetCell(@, i, v)]

\* Mem::load's panic and its value.
MemLoadPanics(i) == i >= MEM_SIZE
MemLoad(e, i) == Cell(e.mem.cells, i)

\* Mem::get(index) for one index: None (here -1) outside the array.
MemGet(e, i) == IF i < MEM_SIZE THEN Cell(e.mem.cells, i) ELSE -1

\* Mem::store_arr: store(addr + idx as u16, v[idx]) for idx = 0, 1, ...; the
\* bytes before a panicking store stay written.
RECURSIVE StoreArrFrom(_, _, _, _, _)
StoreArrFrom(e, addr, v, idx, oc) ==
    IF Panicked(e) \/ idx >= Len(v) THEN e
    ELSE IF AddOverflows(addr, idx, U16) /\ oc THEN Panic(e, OverflowPanic)
    ELSE StoreArrFrom(MemStore(e, WrapAdd(addr, idx, U16), v[idx + 1]),
                      addr, v, idx + 1, oc)

MemStoreArr(e, addr, v, oc) == StoreArrFrom(e, addr, v, 0, oc)

\* Mem::store_font
RECURSIVE StoreFontFrom(_, _, _, _)
StoreFontFrom(e, start, i, oc) ==
    IF Panicked(e) \/ i >= 16 THEN e
    ELSE IF AddOverflows(start, i * FONT_SIZE_BYTES, U16) /\ oc
        THEN Panic(e, OverflowPanic)
    ELSE StoreFontFrom(
            MemStoreArr(e, WrapAdd(start, i * FONT_SIZE_BYTES, U16),
                        FONT[i + 1], oc),
            start, i + 1, oc)

MemStoreFont(e, start, oc) ==
    StoreFontFrom([e EXCEPT !.mem.start_addr = start], start, 0, oc)

\* Mutant of addr_of_font: the base is taken to be 0.
AddrOfFontFromZero(e, digit) == FONT_SIZE_BYTES * digit

\* Mem::addr_of_font (its sum fits u16 whenever start_addr <= 64260)
AddrOfFont(e, digit) == e.mem.start_addr + FONT_SIZE_BYTES * digit

(***************************************************************************)
(* display.rs, struct Screen.  pixels is the array [[bool; 64]; 32], held  *)
(* as the set of the <<x, y>> whose pixel is true.                         *)
(***************************************************************************)
ScreenNew == {}

ScrGet(pixels, x, y) == <<x % COLS, y % ROWS>> \in pixels

\* Mutant of Screen::xor: reports a pixel that was set, changed or not.
ScrXorReportsSetBefore(pixels, x, y, v) ==
    LET xx == x % COLS
        yy == y % ROWS
        was_pixel == <<xx, yy>> \in pixels
        now == (was_pixel /\ ~v) \/ (~was_pixel /\ v)
    IN  [pixels |-> IF now THEN pixels \cup {<<xx, yy>>}
                    ELSE pixels \ {<<xx, yy>>},
         ret |-> was_pixel]

\* Mutant of Screen::xor: the bit is or-ed into the pixel.
ScrOr(pixels, x, y, v) ==
    LET xx == x % COLS
        yy == y % ROWS
        was_pixel == <<xx, yy>> \in pixels
    IN  [pixels |-> IF was_pixel \/ v THEN pixels \cup {<<xx, yy>>}
                    ELSE pixels,
         ret |-> was_pixel /\ v]

\* Screen::xor: the new pixels and the returned bool.
ScrXor(pixels, x, y, v) ==
    LET xx == x % COLS
        yy == y % ROWS
        was_pixel == <<xx, yy>> \in pixels
        now == (was_pixel /\ ~v) \/ (~was_pixel /\ v)
    IN  [pixels |-> IF now THEN pixels \cup {<<xx, yy>>}
                    ELSE pixels \ {<<xx, yy>>},
         ret |-> was_pixel /\ ~now]

ScrClear(e) == [e EXCEPT !.scr = {}]

(***************************************************************************)
(* input.rs, struct Keyboard.                                              *)
(***************************************************************************)
KeyboardNew == [k \in 0..(NKEYS - 1) |-> FALSE]

KbdSwitch(e, idx) ==
    IF idx >= NKEYS THEN Panic(e, IndexPanic)
    ELSE [e EXCEPT !.kbd[idx] = ~@]

KbdGet(e, idx) == e.kbd[idx]

\* Mutant of down_key: the last index that is down.
DownKeyHighest(e) ==
    IF \E k \in 0..(NKEYS - 1) : e.kbd[k]
    THEN CHOOSE k \in 0..(NKEYS - 1) :
            e.kbd[k] /\ \A j \in (k + 1)..(NKEYS - 1) : ~e.kbd[j]
    ELSE -1

\* Keyboard::down_key: the first index that is down, None (here -1)
DownKey(e) ==
    IF \E k \in 0..(NKEYS - 1) : e.kbd[k]
    THEN CHOOSE k \in 0..(NKEYS - 1) :
            e.kbd[k] /\ \A j \in 0..(k - 1) : ~e.kbd[j]
    ELSE -1

(***************************************************************************)
(* cpu.rs, struct CPU and its primitives.  oc says whether the build       *)
(* checks arithmetic overflow (`+=` on u16 panics) or wraps.               *)
(***************************************************************************)
CpuNew ==
    [pc |-> 0, i |-> 0, regs |-> [r \in 0..(NREGS - 1) |-> 0], sp |-> 0,
     stack |-> << >>, instr |-> NoneOp, dt |-> 0, st |-> 0]

\* self.pc += d
AddPc(e, d, oc) ==
    IF AddOverflows(e.cpu.pc, d, U16) /\ oc THEN Panic(e, OverflowPanic)
    ELSE [e EXCEPT !.cpu.pc = WrapAdd(@, d, U16)]

\* Mutant: pc counts instructions, not bytes.
inc_pc_by_one(e, oc) == AddPc(e, 1, oc)

inc_pc(e, oc) == AddPc(e, 2, oc)

\* Mutant: ret itself steps over the call, and exec advances once more.
ret_past_call(e, oc) ==
    IF e.cpu.stack = << >> THEN e
    ELSE [e EXCEPT !.cpu.stack = SubSeq(@, 1, Len(@) - 1),
                   !.cpu.sp = (@ - 1) % U16,
                   !.cpu.pc = e.cpu.stack[Len(e.cpu.stack)] + 2]

\* Mutant: the stack pointer is decremented whether or not a frame was popped.
ret_always_decrements(e, oc) ==
    IF e.cpu.stack = << >>
    THEN IF oc THEN Panic(e, OverflowPanic)
         ELSE [e EXCEPT !.cpu.sp = (@ - 1) % U16]
    ELSE [e EXCEPT !.cpu.stack = SubSeq(@, 1, Len(@) - 1),
                   !.cpu.sp = (@ - 1) % U16,
                   !.cpu.pc = e.cpu.stack[Len(e.cpu.stack)]]

\* Mutant: the oldest frame is taken, not the newest.
ret_oldest_frame(e, oc) ==
    IF e.cpu.stack = << >> THEN e
    ELSE [e EXCEPT !.cpu.stack = Tail(@),
                   !.cpu.sp = (@ - 1) % U16,
                   !.cpu.pc = e.cpu.stack[1]]

\* CPU::ret.  sp = 0 with a frame on the stack underflows `sp -= 1`.
ret(e, oc) ==
    IF e.cpu.stack = << >> THEN e
    ELSE LET addr == e.cpu.stack[Len(e.cpu.stack)]
             popped == SubSeq(e.cpu.stack, 1, Len(e.cpu.stack) - 1)
             sp1 == (e.cpu.sp - 1) % U16
         IN  IF e.cpu.sp = 0 /\ oc
             THEN Panic([e EXCEPT !.cpu.stack = popped], OverflowPanic)
             ELSE IF sp1 # Len(popped)
             THEN Panic([e EXCEPT !.cpu.stack = popped, !.cpu.sp = sp1,
                                  !.cpu.pc = addr],
                        "assertion failed")
             ELSE [e EXCEPT !.cpu.stack = popped, !.cpu.sp = sp1,
                            !.cpu.pc = addr]

\* Mutant: the address pushed is that of the next instruction.
call_pushes_next(e, a, oc) ==
    [e EXCEPT !.cpu.stack = Append(@, e.cpu.pc + 2),
              !.cpu.sp = WrapAdd(@, 1, U16), !.cpu.pc = a]

\* Mutant: the stack pointer is not incremented.
call_keeps_sp(e, a, oc) ==
    [e EXCEPT !.cpu.stack = Append(@, e.cpu.pc), !.cpu.pc = a]

\* CPU::call
call(e, a, oc) ==
    LET pushed == [e EXCEPT !.cpu.stack = Append(@, e.cpu.pc)]
    IN  IF AddOverflows(e.cpu.sp, 1, U16) /\ oc
        THEN Panic(pushed, OverflowPanic)
        ELSE [pushed EXCEPT !.cpu.sp = WrapAdd(@, 1, U16), !.cpu.pc = a]

skip_if(e, pred, oc) == AddPc(e, IF pred THEN 4 ELSE 2, oc)
skip_eq(e, vx, byte, oc) == skip_if(e, e.cpu.regs[vx] = byte, oc)
skip_neq(e, vx, byte, oc) == skip_if(e, e.cpu.regs[vx] # byte, oc)
skip_eq_reg(e, vx, vy, oc) == skip_if(e, e.cpu.regs[vx] = e.cpu.regs[vy], oc)
skip_neq_reg(e, vx, vy, oc) == skip_if(e, e.cpu.regs[vx] # e.cpu.regs[vy], oc)

load(e, vx, byte) == [e EXCEPT !.cpu.regs[vx] = byte]
load_r(e, vx, vy) == [e EXCEPT !.cpu.regs[vx] = e.cpu.regs[vy]]
add(e, vx, byte) == [e EXCEPT !.cpu.regs[vx] = (@ + byte) % U8]
or(e, vx, vy) == [e EXCEPT !.cpu.regs[vx] = BitOr(@, e.cpu.regs[vy])]
and(e, vx, vy) == [e EXCEPT !.cpu.regs[vx] = BitAnd(@, e.cpu.regs[vy])]
xor(e, vx, vy) == [e EXCEPT !.cpu.regs[vx] = BitXor(@, e.cpu.regs[vy])]

\* Mutant of overflowing_add: a sum of exactly 256 is not an overflow.
OverflowingAddAbove256(a, b) == <<(a + b) % U8, a + b > U8>>

\* u8::overflowing_add / overflowing_sub: <<result, overflow>>
OverflowingAdd(a, b) == <<(a + b) % U8, a + b >= U8>>
OverflowingSub(a, b) == <<(a - b + U8) % U8, a < b>>
\* u8::overflowing_shr(k) / overflowing_shl(k): the shift is by k mod 8 and
\* the bool says whether k was 8 or more, not whether a bit was lost.
OverflowingShr(a, k) == <<Shr(a, k % 8), k >= 8>>
OverflowingShl(a, k) == <<(a * (2 ^ (k % 8))) % U8, k >= 8>>

\* regs[0xF] is written first, regs[vx] second.
SetFlagThen(e, vx, flag, val) ==
    [e EXCEPT !.cpu.regs = [[@ EXCEPT ![15] = IF flag THEN 1 ELSE 0]
                                EXCEPT ![vx] = val]]

addr(e, vx, vy) ==
    LET r == OverflowingAdd(e.cpu.regs[vx], e.cpu.regs[vy])
    IN  SetFlagThen(e, vx, r[2], r[1])

\* Mutant of CPU::subr: the flag is the borrow itself.
subr_flag_is_borrow(e, vx, vy) ==
    LET r == OverflowingSub(e.cpu.regs[vx], e.cpu.regs[vy])
    IN  SetFlagThen(e, vx, r[2], r[1])

subr(e, vx, vy) ==
    LET r == OverflowingSub(e.cpu.regs[vx], e.cpu.regs[vy])
    IN  SetFlagThen(e, vx, ~r[2], r[1])

shr(e, vx) ==
    LET r == OverflowingShr(e.cpu.regs[vx], 1)
    IN  SetFlagThen(e, vx, r[2], r[1])

subrn(e, vx, vy) ==
    LET r == OverflowingSub(e.cpu.regs[vy], e.cpu.regs[vx])
    IN  SetFlagThen(e, vx, ~r[2], r[1])

shl(e, vx) ==
    LET r == OverflowingShl(e.cpu.regs[vx], 1)
    IN  SetFlagThen(e, vx, r[2], r[1])

ldi(e, a) == [e EXCEPT !.cpu.i = a]

\* CPU::jpoff: regs[0] as u16 + addr
jpoff(e, a, oc) ==
    IF AddOverflows(e.cpu.regs[0], a, U16) /\ oc THEN Panic(e, OverflowPanic)
    ELSE [e EXCEPT !.cpu.pc = WrapAdd(e.cpu.regs[0], a, U16)]

\* CPU::rnd, r the byte rand::random::<u8>() returns
rnd(e, vx, byte, r) == [e EXCEPT !.cpu.regs[vx] = BitAnd(r, byte)]

dtset(e, vx) == [e EXCEPT !.cpu.dt = e.cpu.regs[vx]]
dtget(e, vx) == [e EXCEPT !.cpu.regs[vx] = e.cpu.dt]
stset(e, vx) == [e EXCEPT !.cpu.st = e.cpu.regs[vx]]

\* CPU::iinc: self.i += regs[vx] as u16
iinc(e, vx, oc) ==
    IF AddOverflows(e.cpu.i, e.cpu.regs[vx], U16) /\ oc
    THEN Panic(e, OverflowPanic)
    ELSE [e EXCEPT !.cpu.i = WrapAdd(@, e.cpu.regs[vx], U16)]

(***************************************************************************)
(* emulator.rs, impl Emulator: the helpers of exec.                        *)
(***************************************************************************)
EmulatorNew ==
    [cpu |-> CpuNew, mem |-> MemNew, scr |-> ScreenNew, kbd |-> KeyboardNew,
     panic |-> NoPanic]

start_addr == START_ADDR

\* Emulator::store_font
store_font(e, oc) == Then(MemStoreFont(e, 0, oc), LAMBDA f : ldi(f, 0))

\* Emulator::load_instr: two loads, the high byte first.
LoadInstrPanics(i) == MemLoadPanics(i) \/ MemLoadPanics(i + 1)
load_instr(e, i) == BitOr(Shl16(MemLoad(e, i), 8), MemLoad(e, i + 1))

\* Mutant of store_instr: the low byte is stored first.
RECURSIVE StoreInstrLowByteFirst(_, _, _, _)
StoreInstrLowByteFirst(e, v, k, a) ==
    IF Panicked(e) \/ k > Len(v) THEN e
    ELSE StoreInstrLowByteFirst(
            Then(MemStore(e, a, BitAnd(v[k], 255)),
                 LAMBDA f : MemStore(f, a + 1, Shr(v[k], 8))),
            v, k + 1, a + 2)

\* Emulator::store_instr
RECURSIVE StoreInstrFrom(_, _, _, _)
StoreInstrFrom(e, v, k, a) ==
    IF Panicked(e) \/ k > Len(v) THEN e
    ELSE StoreInstrFrom(
            Then(MemStore(e, a, Shr(v[k], 8)),
                 LAMBDA f : MemStore(f, a + 1, BitAnd(v[k], 255))),
            v, k + 1, a + 2)

store_instr(e, v) ==
    Then(StoreInstrFrom(e, v, 1, start_addr),
         LAMBDA f : [f EXCEPT !.cpu.pc = start_addr])

\* Emulator::store_bytes
store_bytes(e, v, oc) ==
    Then(MemStoreArr(e, start_addr, v, oc),
         LAMBDA f : [f EXCEPT !.cpu.pc = start_addr])

\* Emulator::store
store(e, v) == store_instr(e, [k \in 1..Len(v) |-> ToInstr(v[k])])

\* Mutant of regsstore: the range is regs[0..vx], without Vx.
regsstore_exclusive(e, vx, oc) ==
    MemStoreArr(e, e.cpu.i, [k \in 1..vx |-> e.cpu.regs[k - 1]], oc)

\* Emulator::regsstore: regs[0..=vx] to memory from i
regsstore(e, vx, oc) ==
    MemStoreArr(e, e.cpu.i, [k \in 1..(vx + 1) |-> e.cpu.regs[k - 1]], oc)

\* Emulator::regsload: a cell outside the memory is skipped
RECURSIVE RegsLoadFrom(_, _, _)
RegsLoadFrom(e, vx, i_offset) ==
    IF i_offset > vx THEN e
    ELSE LET val == MemGet(e, e.cpu.i + i_offset)
         IN  RegsLoadFrom(
                IF val >= 0 THEN [e EXCEPT !.cpu.regs[i_offset] = val] ELSE e,
                vx, i_offset + 1)

regsload(e, vx) == RegsLoadFrom(e, vx, 0)

\* Mutant of split_val: the tens are not reduced mod 10.
split_val_tens_unreduced(v) == <<v \div 100, v \div 10, v % 10>>

split_val(v) == <<v \div 100, (v \div 10) % 10, v % 10>>

\* Emulator::bcd: three stores, each of which may panic
bcd(e, vx) ==
    LET d == split_val(e.cpu.regs[vx])
    IN  Then(Then(MemStore(e, e.cpu.i, d[1]),
                  LAMBDA f : MemStore(f, f.cpu.i + 1, d[2])),
             LAMBDA f : MemStore(f, f.cpu.i + 2, d[3]))

idig(e, vx) == [e EXCEPT !.cpu.i = AddrOfFont(e, e.cpu.regs[vx])]

\* Mutant of keyset: the key that was read is released.
keyset_releases_key(e, vx) ==
    IF DownKey(e) >= 0
    THEN KbdSwitch([e EXCEPT !.cpu.regs[vx] = DownKey(e)], DownKey(e))
    ELSE e

keyset(e, vx) ==
    IF DownKey(e) >= 0 THEN [e EXCEPT !.cpu.regs[vx] = DownKey(e)] ELSE e

\* Emulator::draw, the inner loop `for bit in 0..8`: d = [e, collision].
\* vx + bit and vy + line_num are u8 additions.
RECURSIVE DrawBits(_, _, _, _, _, _, _)
DrawBits(d, vx, vy, line_num, byte, bit, oc) ==
    IF Panicked(d.e) \/ bit >= 8 THEN d
    ELSE IF oc /\ (AddOverflows(vx, bit, U8) \/ AddOverflows(vy, line_num, U8))
        THEN [d EXCEPT !.e = Panic(@, OverflowPanic)]
    ELSE LET r == ScrXor(d.e.scr, WrapAdd(vx, bit, U8),
                         WrapAdd(vy, line_num, U8),
                         BitAnd(RotateLeft8(byte, bit + 1), 1) = 1)
         IN  DrawBits([e |-> [d.e EXCEPT !.scr = r.pixels],
                       collision |-> d.collision \/ r.ret],
                      vx, vy, line_num, byte, bit + 1, oc)

\* Emulator::draw, the outer loop `for line_num in 0..n`
RECURSIVE DrawLines(_, _, _, _, _, _)
DrawLines(d, vx, vy, line_num, n, oc) ==
    IF Panicked(d.e) \/ line_num >= n THEN d
    ELSE IF oc /\ AddOverflows(d.e.cpu.i, line_num, U16)
        THEN [d EXCEPT !.e = Panic(@, OverflowPanic)]
    ELSE LET memloc == WrapAdd(d.e.cpu.i, line_num, U16)
         IN  IF MemLoadPanics(memloc)
             THEN [d EXCEPT !.e = Panic(@, IndexPanic)]
             ELSE DrawLines(
                    DrawBits(d, vx, vy, line_num, MemLoad(d.e, memloc), 0, oc),
                    vx, vy, line_num + 1, n, oc)

draw(e, vx, vy, n, oc) ==
    LET d == DrawLines([e |-> e, collision |-> FALSE],
                       e.cpu.regs[vx], e.cpu.regs[vy], 0, n, oc)
    IN  Then(d.e, LAMBDA f :
                [f EXCEPT !.cpu.regs[15] = IF d.collision THEN 1 ELSE 0])

(***************************************************************************)
(* Emulator::exec: one arm per variant.  r is the byte the random source   *)
(* gives RND.                                                              *)
(***************************************************************************)
ThenIncPc(e, oc) == Then(e, LAMBDA f : inc_pc(f, oc))

exec(e, op, r, oc) ==
    CASE op.t = "CLS" -> ThenIncPc(ScrClear(e), oc)
      [] op.t = "RET" -> ThenIncPc(ret(e, oc), oc)
      [] op.t = "JP" -> [e EXCEPT !.cpu.pc = op.n]
      [] op.t = "CALL" -> call(e, op.n, oc)
      [] op.t = "SE" -> skip_eq(e, op.x, op.n, oc)
      [] op.t = "SNE" -> skip_neq(e, op.x, op.n, oc)
      [] op.t = "SER" -> skip_eq_reg(e, op.x, op.y, oc)
      [] op.t = "LD" -> ThenIncPc(load(e, op.x, op.n), oc)
      [] op.t = "ADD" -> ThenIncPc(add(e, op.x, op.n), oc)
      [] op.t = "LDR" -> ThenIncPc(load_r(e, op.x, op.y), oc)
      [] op.t = "AND" -> ThenIncPc(and(e, op.x, op.y), oc)
      [] op.t = "OR" -> ThenIncPc(or(e, op.x, op.y), oc)
      [] op.t = "XOR" -> ThenIncPc(xor(e, op.x, op.y), oc)
      [] op.t = "ADDR" -> ThenIncPc(addr(e, op.x, op.y), oc)
      [] op.t = "SUBR" -> ThenIncPc(subr(e, op.x, op.y), oc)
      [] op.t = "SHR" -> ThenIncPc(shr(e, op.x), oc)
      [] op.t = "SUBRN" -> ThenIncPc(subrn(e, op.x, op.y), oc)
      [] op.t = "SHL" -> ThenIncPc(shl(e, op.x), oc)
      [] op.t = "SNER" -> skip_neq_reg(e, op.x, op.y, oc)
      [] op.t = "LDI" -> ThenIncPc(ldi(e, op.n), oc)
      [] op.t = "JPOFF" -> jpoff(e, op.n, oc)
      [] op.t = "RND" -> ThenIncPc(rnd(e, op.x, op.n, r), oc)
      [] op.t = "DRW" -> ThenIncPc(draw(e, op.x, op.y, op.n, oc), oc)
      \* the key looked up is the operand itself, not the register it names
      [] op.t = "SKP" -> skip_if(e, KbdGet(e, op.x), oc)
      [] op.t = "SKNP" -> skip_if(e, ~KbdGet(e, op.x), oc)
      [] op.t = "KEYSET" -> ThenIncPc(keyset(e, op.x), oc)
      [] op.t = "DTSET" -> ThenIncPc(dtset(e, op.x), oc)
      [] op.t = "DTGET" -> ThenIncPc(dtget(e, op.x), oc)
      [] op.t = "STSET" -> ThenIncPc(stset(e, op.x), oc)
      [] op.t = "IINC" -> ThenIncPc(iinc(e, op.x, oc), oc)
      [] op.t = "IDIG" -> ThenIncPc(idig(e, op.x), oc)
      [] op.t = "BCD" -> ThenIncPc(bcd(e, op.x), oc)
      [] op.t = "REGSSTORE" -> ThenIncPc(regsstore(e, op.x, oc), oc)
      [] op.t = "REGLOAD" -> ThenIncPc(regsload(e, op.x), oc)

\* Emulator::fetch: cpu.instr becomes the decoded word at pc
fetch(e) ==
    IF LoadInstrPanics(e.cpu.pc) THEN Panic(e, IndexPanic)
    ELSE [e EXCEPT !.cpu.instr = From(load_instr(e, e.cpu.pc))]

\* Mutant: a word that decodes to None is stepped over.
step_skips_undecodable(e, r, oc) ==
    Then(fetch(e), LAMBDA f :
        IF f.cpu.instr # NoneOp THEN exec(f, f.cpu.instr, r, oc)
        ELSE inc_pc(f, oc))

\* Emulator::step
step(e, r, oc) ==
    Then(fetch(e), LAMBDA f :
        IF f.cpu.instr # NoneOp THEN exec(f, f.cpu.instr, r, oc) ELSE f)

\* Mutant of key_pressed: the key is toggled whatever oldk is.
key_pressed_ignores_old(e, oldk, k) == KbdSwitch(e, k)

\* Mutant of key_pressed: the old key is not toggled back.
key_pressed_keeps_old(e, oldk, k) ==
    IF oldk >= 0
    THEN IF oldk # k THEN KbdSwitch(e, k) ELSE e
    ELSE KbdSwitch(e, k)

\* Emulator::key_pressed; oldk = -1 is None
key_pressed(e, oldk, k) ==
    IF oldk >= 0
    THEN IF oldk # k
         THEN Then(KbdSwitch(e, oldk), LAMBDA f : KbdSwitch(f, k))
         ELSE e
    ELSE KbdSwitch(e, k)

\* Emulator::key_released
key_released(e) == IF DownKey(e) >= 0 THEN KbdSwitch(e, DownKey(e)) ELSE e

\* Mutant of checked_sub(1): the subtraction wraps below 0.
WrappingSub1(v) == (v + U8 - 1) % U8

\* u8::checked_sub(1): None (here -1) below 0
CheckedSub1(v) == IF v >= 1 THEN v - 1 ELSE -1

\* Emulator::tick; the pair it returns is <<dt, st>> of the result
tick(e) ==
    LET t1 == IF CheckedSub1(e.cpu.dt) >= 0
              THEN [e EXCEPT !.cpu.dt = CheckedSub1(e.cpu.dt)] ELSE e
    IN  IF CheckedSub1(t1.cpu.st) >= 0
        THEN [t1 EXCEPT !.cpu.st = CheckedSub1(t1.cpu.st)] ELSE t1

\* The pair tick returns: (self.cpu.dt, self.cpu.st) after the updates.
TickRet(e) == <<tick(e).cpu.dt, tick(e).cpu.st>>

(***************************************************************************)
(* The state.  cpu, mem, scr, kbd: the fields of the one Emulator; panic:  *)
(* the panic that ended it, if any; mode: whether a call of run is in its  *)
(* loop; loaded: whether a program was stored; ncalls: calls made so far.  *)
(* History variables: last = the call (or loop iteration) that produced    *)
(* the state, the operation it executed, and the emulator and the frames   *)
(* before it; frames = for each CALL executed and not yet returned from,   *)
(* its address and the stack pointer before it.                            *)
(* c_op, c_word, c_dec, c_pc: the codec applied to one operation.          *)
(* prev: an earlier value of last: the call before the last one (draws,    *)
(* register transfers), the call that installed the font.                  *)
(***************************************************************************)
VARIABLES cpu, mem, scr, kbd, panic, mode, loaded, ncalls, last, frames,
          c_op, c_word, c_dec, c_pc, prev

evars == <<cpu, mem, scr, kbd, panic, mode, loaded, ncalls, last, frames>>
cvars == <<c_op, c_word, c_dec, c_pc>>
dvars == <<prev>>
vars == <<cpu, mem, scr, kbd, panic, mode, loaded, ncalls, last, frames,
          c_op, c_word, c_dec, c_pc, prev>>

Emu == [cpu |-> cpu, mem |-> mem, scr |-> scr, kbd |-> kbd, panic |-> panic]

Set(e) ==
    /\ cpu' = e.cpu
    /\ mem' = e.mem
    /\ scr' = e.scr
    /\ kbd' = e.kbd
    /\ panic' = e.panic

Did(kind, op) ==
    last' = [kind |-> kind, op |-> op, pre |-> Emu, frames |-> frames]

\* The same for a call that stored the words `words` at 0x200.
Stored(kind, words) ==
    last' = [kind |-> kind, op |-> NoneOp, pre |-> Emu, frames |-> frames,
             words |-> words]

\* The frames after `op` took the emulator to `post`.
NextFrames(op, post) ==
    IF Panicked(post) THEN frames
    ELSE IF op.t = "CALL"
        THEN Append(frames, [p |-> cpu.pc, sp |-> cpu.sp])
    ELSE IF op.t = "RET" /\ frames # << >>
        THEN SubSeq(frames, 1, Len(frames) - 1)
    ELSE frames

(***************************************************************************)
(* The inputs of the calls.                                                *)
(***************************************************************************)
SampleOps ==
    { Op("CLS", 0, 0, 0), Op("RET", 0, 0, 0),
      Op("JP", 0, 0, 291), Op("JP", 0, 0, 4095),
      Op("CALL", 0, 0, 516), Op("JPOFF", 0, 0, 292),
      Op("SE", 1, 0, 5), Op("SNE", 1, 0, 5),
      Op("SER", 1, 2, 0), Op("SNER", 1, 2, 0),
      Op("LD", 0, 0, 1), Op("LD", 1, 0, 5), Op("LD", 2, 0, 9),
      Op("LD", 1, 0, 255), Op("LD", 2, 0, 5),
      Op("ADD", 1, 0, 255), Op("LDR", 1, 2, 0),
      Op("OR", 1, 2, 0), Op("AND", 1, 2, 0), Op("XOR", 1, 2, 0),
      Op("ADDR", 1, 2, 0), Op("SUBR", 1, 2, 0), Op("SUBRN", 1, 2, 0),
      Op("SHR", 1, 0, 0), Op("SHL", 1, 0, 0),
      Op("LDI", 0, 0, 4095), Op("LDI", 0, 0, 768),
      Op("RND", 1, 0, 3), Op("DRW", 1, 2, 2),
      Op("SKP", 1, 0, 0), Op("SKNP", 1, 0, 0), Op("KEYSET", 1, 0, 0),
      Op("DTSET", 1, 0, 0), Op("DTGET", 2, 0, 0), Op("STSET", 1, 0, 0),
      Op("IINC", 1, 0, 0), Op("IDIG", 1, 0, 0), Op("BCD", 1, 0, 0),
      Op("REGSSTORE", 2, 0, 0), Op("REGLOAD", 2, 0, 0) }

\* The bytes the random source may give an operation.
RandomBytes(op) == IF op.t = "RND" THEN 0..(U8 - 1) ELSE {0}

\* Keys the driver reports (key 5 is the key a register holding 5 names).
KeyInputs == {1, 5}
OldKeyInputs == {-1} \cup KeyInputs

\* Programs given to store_instr, as words.
InstrPrograms ==
    { <<4608>>,                  \* 1200  JP 0x200, a jump to itself
      <<8191>>,                  \* 1FFF  JP 0xFFF
      <<8704>>,                  \* 2200  CALL 0x200, a call of itself
      <<238>>,                   \* 00EE  RET with no call before it
      <<24577, 45348>>,          \* 6001 B124
      <<25089, 25346, 53810>>,   \* 6201 6302 D232
      <<41252>>,                 \* A124
      <<30463>>,                 \* 76FF
      <<24837, 57758, 24841>> }  \* 6105 E19E 6109

\* Programs given to store, as operations.
OpPrograms ==
    { <<Op("CALL", 0, 0, 516), Op("JP", 0, 0, 521), Op("CLS", 0, 0, 0),
        Op("RET", 0, 0, 0)>>,
      <<Op("JP", 0, 0, 291)>>,
      \* a call inside a call: 2204 120A 2208 00EE 00EE
      <<Op("CALL", 0, 0, 516), Op("JP", 0, 0, 522), Op("CALL", 0, 0, 520),
        Op("RET", 0, 0, 0), Op("RET", 0, 0, 0)>> }

\* Programs given to store_bytes.
BytePrograms == { <<97, 5, 98, 9, 129, 36>> }   \* 61 05 62 09 81 24

(***************************************************************************)
(* Init: Emulator::new().                                                  *)
(***************************************************************************)
EmuInit ==
    /\ cpu = CpuNew
    /\ mem = MemNew
    /\ scr = ScreenNew
    /\ kbd = KeyboardNew
    /\ panic = NoPanic
    /\ mode = "idle"
    /\ loaded = FALSE
    /\ ncalls = 0
    /\ last = [kind |-> "new", op |-> NoneOp, pre |-> EmulatorNew,
               frames |-> << >>]
    /\ frames = << >>

CodecIdle ==
    /\ c_op = NoneOp
    /\ c_word = 0
    /\ c_dec = NoneOp
    /\ c_pc = "idle"

DrawIdle ==
    prev = [kind |-> "new", op |-> NoneOp, pre |-> EmulatorNew,
            frames |-> << >>]

Init == EmuInit /\ CodecIdle /\ DrawIdle

(***************************************************************************)
(* The calls of the driver.  A call is possible while no call of run is in *)
(* its loop and no panic has ended the emulator.                           *)
(***************************************************************************)
Callable == mode = "idle" /\ panic = NoPanic
Driving == Callable /\ ncalls < MaxCalls

\* store_font(), before anything else
StoreFont ==
    /\ Callable /\ last.kind = "new"
    /\ \E oc \in BOOLEAN : Set(store_font(Emu, oc))
    /\ Did("store_font", NoneOp)
    /\ UNCHANGED <<mode, loaded, ncalls, frames, cvars, dvars>>

Loading == Callable /\ ~loaded /\ ncalls = 0

\* store_instr(v)
StoreInstr ==
    /\ Loading
    /\ \E v \in InstrPrograms :
        /\ Set(store_instr(Emu, v))
        /\ Stored("store_instr", v)
    /\ loaded' = TRUE
    /\ UNCHANGED <<mode, ncalls, frames, cvars, dvars>>

\* store(v)
Store ==
    /\ Loading
    /\ \E v \in OpPrograms :
        /\ Set(store(Emu, v))
        /\ Stored("store", [k \in 1..Len(v) |-> ToInstr(v[k])])
    /\ loaded' = TRUE
    /\ UNCHANGED <<mode, ncalls, frames, cvars, dvars>>

\* store_bytes(v)
StoreBytes ==
    /\ Loading
    /\ \E v \in BytePrograms, oc \in BOOLEAN : Set(store_bytes(Emu, v, oc))
    /\ loaded' = TRUE
    /\ Did("store_bytes", NoneOp)
    /\ UNCHANGED <<mode, ncalls, frames, cvars, dvars>>

\* exec(op), by a driver that stored no program
Exec ==
    /\ Driving /\ ~loaded
    /\ \E op \in SampleOps :
        /\ op.t = "CALL" => Len(cpu.stack) < MaxStack
        /\ \E r \in RandomBytes(op), oc \in BOOLEAN :
            LET e2 == exec(Emu, op, r, oc)
            IN  /\ Set(e2)
                /\ frames' = NextFrames(op, e2)
        /\ Did("exec", op)
    /\ ncalls' = ncalls + 1
    /\ UNCHANGED <<mode, loaded, cvars, dvars>>

\* The operation a fetch at pc gives (None when the fetch panics).
Fetched == IF Panicked(fetch(Emu)) THEN NoneOp ELSE fetch(Emu).cpu.instr

\* fetch, then exec of what was fetched: the body of step and of run's loop
FetchExec(kind) ==
    /\ Fetched.t = "CALL" => Len(cpu.stack) < MaxStack
    /\ \E r \in RandomBytes(Fetched), oc \in BOOLEAN :
        LET e2 == step(Emu, r, oc)
        IN  /\ Set(e2)
            /\ frames' = NextFrames(Fetched, e2)
    /\ Did(kind, Fetched)

\* step()
Step ==
    /\ Driving
    /\ FetchExec("step")
    /\ ncalls' = ncalls + 1
    /\ UNCHANGED <<mode, loaded, cvars, dvars>>

\* run(): sets pc and enters the loop
Run ==
    /\ Driving
    /\ Set([Emu EXCEPT !.cpu.pc = start_addr])
    /\ mode' = "run"
    /\ Did("run", NoneOp)
    /\ ncalls' = ncalls + 1
    /\ UNCHANGED <<loaded, frames, cvars, dvars>>

\* One iteration of run's loop: `break` when the fetch gives None.
RunLoop ==
    /\ mode = "run" /\ panic = NoPanic
    /\ FetchExec("run_loop")
    /\ mode' = IF Fetched = NoneOp /\ ~Panicked(fetch(Emu))
               THEN "idle" ELSE "run"
    /\ UNCHANGED <<loaded, ncalls, cvars, dvars>>

\* tick()
Tick ==
    /\ Driving
    /\ Set(tick(Emu))
    /\ Did("tick", NoneOp)
    /\ ncalls' = ncalls + 1
    /\ UNCHANGED <<mode, loaded, frames, cvars, dvars>>

\* key_pressed(oldk, k)
KeyPressed ==
    /\ Driving
    /\ \E oldk \in OldKeyInputs, k \in KeyInputs :
        /\ Set(key_pressed(Emu, oldk, k))
        /\ Did("key_pressed", Op("None", oldk, k, 0))
    /\ ncalls' = ncalls + 1
    /\ UNCHANGED <<mode, loaded, frames, cvars, dvars>>

\* key_released()
KeyReleased ==
    /\ Driving
    /\ Set(key_released(Emu))
    /\ Did("key_released", NoneOp)
    /\ ncalls' = ncalls + 1
    /\ UNCHANGED <<mode, loaded, frames, cvars, dvars>>

Next ==
    \/ StoreFont
    \/ StoreInstr
    \/ Store
    \/ StoreBytes
    \/ Exec
    \/ Step
    \/ Run
    \/ RunLoop
    \/ Tick
    \/ KeyPressed
    \/ KeyReleased

Spec == Init /\ [][Next]_vars

(***************************************************************************)
(* The codec on its own: an operation is encoded, the word decoded.        *)
(***************************************************************************)
Nibbles == 0..15
Bytes == 0..(U8 - 1)
Addrs == 0..4095

\* c_op is any operation whose operands lie in their fields.
OpInRange ==
    \/ \E t \in NoOperandVariants : c_op = Op(t, 0, 0, 0)
    \/ \E t \in AddrVariants, a \in Addrs : c_op = Op(t, 0, 0, a)
    \/ \E t \in RegByteVariants, x \in Nibbles, b \in Bytes :
        c_op = Op(t, x, 0, b)
    \/ \E t \in RegRegVariants, x \in Nibbles, y \in Nibbles :
        c_op = Op(t, x, y, 0)
    \/ \E t \in RegVariants, x \in Nibbles : c_op = Op(t, x, 0, 0)
    \/ \E x \in Nibbles, y \in Nibbles, n \in Nibbles : c_op = Op("DRW", x, y, n)

CodecInit ==
    /\ EmuInit
    /\ DrawIdle
    /\ OpInRange
    /\ c_word = 0
    /\ c_dec = NoneOp
    /\ c_pc = "op"

\* word = op.to_instr()
Encode ==
    /\ c_pc = "op"
    /\ c_word' = ToInstr(c_op)
    /\ c_pc' = "word"
    /\ UNCHANGED <<c_op, c_dec, evars, dvars>>

\* Opcode::from(word)
Decode ==
    /\ c_pc = "word"
    /\ c_dec' = From(c_word)
    /\ c_pc' = "decoded"
    /\ UNCHANGED <<c_op, c_word, evars, dvars>>

CodecNext == Encode \/ Decode

SpecCodec == CodecInit /\ [][CodecNext]_vars

(***************************************************************************)
(* What the claims speak of.                                               *)
(***************************************************************************)
\* The state was produced by executing last.op to its end (no panic).
Executed ==
    /\ last.kind \in {"exec", "step", "run_loop"}
    /\ last.op # NoneOp
    /\ panic = NoPanic

ExecutedOp(t) == Executed /\ last.op.t = t

ControlFlowVariants == {"JP", "CALL", "RET", "JPOFF"}
SkipVariants == {"SE", "SNE", "SER", "SNER", "SKP", "SKNP"}
OtherVariants == Variants \ (ControlFlowVariants \cup SkipVariants)

Top(s) == s[Len(s)]
Front(s) == SubSeq(s, 1, Len(s) - 1)

\* Everything of the emulator but the diagnostic cpu.instr and the pc.
SameButPc(e, f) ==
    /\ e.cpu.i = f.cpu.i /\ e.cpu.regs = f.cpu.regs
    /\ e.cpu.sp = f.cpu.sp /\ e.cpu.stack = f.cpu.stack
    /\ e.cpu.dt = f.cpu.dt /\ e.cpu.st = f.cpu.st
    /\ e.mem = f.mem /\ e.scr = f.scr /\ e.kbd = f.kbd

(***************************************************************************)
(* C1: an executed operation that is neither a control-flow operation nor  *)
(* a skip leaves pc at its value before the instruction plus 2.            *)
(***************************************************************************)
C1_OtherOpsAdvancePcBy2 ==
    (Executed /\ last.op.t \in OtherVariants)
        => cpu.pc = last.pre.cpu.pc + 2

\* draw_test: the DRW at 0x204 of 6201 6302 D232, run, leaves pc = 0x206
C1_Witness ==
    /\ ExecutedOp("DRW") /\ last.kind = "run_loop"
    /\ last.pre.cpu.pc = START_ADDR + 4
    /\ cpu.pc = START_ADDR + 6
    /\ <<1, 2>> \in scr

(***************************************************************************)
(* C2, as claimed: RET with a frame on the stack leaves pc at the popped   *)
(* address, with no further advance, and the stack pointer one lower.      *)
(***************************************************************************)
C2_ReturnLeavesPcAtPopped ==
    (ExecutedOp("RET") /\ last.pre.cpu.stack # << >>)
        => /\ cpu.pc = Top(last.pre.cpu.stack)
           /\ cpu.sp = last.pre.cpu.sp - 1

(***************************************************************************)
(* C2, amended: RET with a frame on the stack pops it and leaves pc at the *)
(* popped address plus 2 (exec advances after the pop), and the stack      *)
(* pointer one lower.                                                      *)
(***************************************************************************)
C2_ReturnLeavesPcAfterPopped ==
    (ExecutedOp("RET") /\ last.pre.cpu.stack # << >>)
        => /\ cpu.pc = Top(last.pre.cpu.stack) + 2
           /\ cpu.stack = Front(last.pre.cpu.stack)
           /\ cpu.sp = last.pre.cpu.sp - 1

C2_Witness ==
    /\ ExecutedOp("RET") /\ last.pre.cpu.stack = <<START_ADDR>>
    /\ cpu.pc = START_ADDR + 2 /\ cpu.sp = 0

(***************************************************************************)
(* C3, as claimed: RET with an empty stack changes nothing: pc, stack      *)
(* pointer, stack, registers, I, timers, memory and display are as before. *)
(***************************************************************************)
C3_UnmatchedReturnChangesNothing ==
    (ExecutedOp("RET") /\ last.pre.cpu.stack = << >>)
        => /\ SameButPc(Emu, last.pre)
           /\ cpu.pc = last.pre.cpu.pc

(***************************************************************************)
(* C3, amended: RET with an empty stack changes nothing but pc, which      *)
(* advances by 2: stack pointer, stack, registers, I, timers, memory,      *)
(* display and keyboard are as before.                                     *)
(***************************************************************************)
C3_UnmatchedReturnOnlyAdvancesPc ==
    (ExecutedOp("RET") /\ last.pre.cpu.stack = << >>)
        => /\ SameButPc(Emu, last.pre)
           /\ cpu.pc = last.pre.cpu.pc + 2

\* 00EE at 0x200, stepped on a new emulator
C3_Witness ==
    /\ ExecutedOp("RET") /\ last.kind = "step"
    /\ last.pre.cpu.stack = << >> /\ last.pre.cpu.pc = START_ADDR
    /\ cpu.pc = START_ADDR + 2 /\ cpu.sp = 0

(***************************************************************************)
(* C4: JP nnn leaves pc = nnn; CALL nnn pushes the pc of the call          *)
(* instruction and leaves pc = nnn; JPOFF nnn leaves pc = V0 + nnn; none   *)
(* of them advances pc further.                                            *)
(***************************************************************************)
C4_JumpCallJumpOffsetSetPc ==
    /\ ExecutedOp("JP") => cpu.pc = last.op.n
    /\ ExecutedOp("CALL")
        => /\ cpu.pc = last.op.n
           /\ cpu.stack = Append(last.pre.cpu.stack, last.pre.cpu.pc)
    /\ ExecutedOp("JPOFF") => cpu.pc = last.pre.cpu.regs[0] + last.op.n

\* the CALL 0x208 at 0x204 of the nested program, inside the call from 0x200
C4_Witness ==
    /\ ExecutedOp("CALL") /\ last.kind = "run_loop"
    /\ last.pre.cpu.pc = START_ADDR + 4
    /\ cpu.pc = START_ADDR + 8
    /\ cpu.stack = <<START_ADDR, START_ADDR + 4>>

(***************************************************************************)
(* C5: a RET that matches a CALL executed at address p resumes at p + 2    *)
(* with the stack pointer the CALL found; and the program CALL 0x204,      *)
(* JP 0x209, CLS, RET stored at 0x200, once run has returned, has left     *)
(* pc = 0x209.                                                             *)
(***************************************************************************)
WordAt(a) == load_instr(Emu, a)

\* 2204 1209 00E0 00EE at 0x200, zeroes after it
JumpCallReturnLoaded ==
    /\ WordAt(START_ADDR) = 8708 /\ WordAt(START_ADDR + 2) = 4617
    /\ WordAt(START_ADDR + 4) = 224 /\ WordAt(START_ADDR + 6) = 238
    /\ WordAt(START_ADDR + 8) = 0 /\ WordAt(START_ADDR + 10) = 0

RunReturned == last.kind = "run_loop" /\ mode = "idle" /\ panic = NoPanic

C5_CallReturnPair ==
    /\ (ExecutedOp("RET") /\ last.frames # << >>)
        => /\ cpu.pc = Top(last.frames).p + 2
           /\ cpu.sp = Top(last.frames).sp
           /\ Len(cpu.stack) = Top(last.frames).sp
    /\ (RunReturned /\ JumpCallReturnLoaded) => cpu.pc = 521

\* the second RET of the nested program returns to the outer call's place
C5_Witness ==
    /\ ExecutedOp("RET") /\ last.kind = "run_loop"
    /\ last.frames = <<[p |-> START_ADDR, sp |-> 0]>>
    /\ last.pre.cpu.pc = START_ADDR + 6
    /\ cpu.pc = START_ADDR + 2 /\ cpu.sp = 0

\* the scenario has run to its halt
C5_ScenarioHalted == RunReturned /\ JumpCallReturnLoaded /\ cpu.pc = 521

KeyDown(e, k) == k < NKEYS /\ e.kbd[k]

SkipPredicate(e, op) ==
    CASE op.t = "SE" -> e.cpu.regs[op.x] = op.n
      [] op.t = "SNE" -> e.cpu.regs[op.x] # op.n
      [] op.t = "SER" -> e.cpu.regs[op.x] = e.cpu.regs[op.y]
      [] op.t = "SNER" -> e.cpu.regs[op.x] # e.cpu.regs[op.y]
      [] op.t = "SKP" -> KeyDown(e, e.cpu.regs[op.x])
      [] op.t = "SKNP" -> ~KeyDown(e, e.cpu.regs[op.x])

C7_SkipsFollowTheirPredicate ==
    (Executed /\ last.op.t \in SkipVariants)
        => cpu.pc = last.pre.cpu.pc
                      + (IF SkipPredicate(last.pre, last.op) THEN 4 ELSE 2)

(***************************************************************************)
(* C8, as claimed: run starts at 0x200 and stops only by returning, at a   *)
(* fetch whose word decodes to None, with pc at that word; until then it   *)
(* keeps looping.                                                          *)
(***************************************************************************)
C8_RunStopsOnlyAtUndecodable ==
    /\ last.kind = "run" => cpu.pc = START_ADDR /\ mode = "run"
    /\ last.kind = "run_loop"
        => /\ panic = NoPanic
           /\ mode = "idle" <=> last.op = NoneOp
           /\ mode = "idle"
                => /\ cpu.pc = last.pre.cpu.pc
                   /\ From(WordAt(cpu.pc)) = NoneOp

(***************************************************************************)
(* C9: step() at a word that decodes to None changes nothing but the       *)
(* diagnostic cpu.instr, which becomes None: pc, I, registers, stack,      *)
(* timers, memory, display and keyboard are as before.                     *)
(***************************************************************************)
C9_StepAtUndecodableChangesNothing ==
    (last.kind = "step" /\ last.op = NoneOp /\ panic = NoPanic)
        => /\ SameButPc(Emu, last.pre)
           /\ cpu.pc = last.pre.cpu.pc
           /\ cpu.instr = NoneOp

\* the second step() of A124: the first executed LDI, this one finds 0000
C9_Witness ==
    /\ last.kind = "step" /\ last.op = NoneOp /\ panic = NoPanic
    /\ last.pre.cpu.instr = Op("LDI", 0, 0, 292)
    /\ cpu.instr = NoneOp
    /\ cpu.pc = START_ADDR + 2

(***************************************************************************)
(* C10, as claimed: for every operation whose operands lie in their        *)
(* fields, decoding the encoded word gives the operation back.             *)
(***************************************************************************)
C10_DecodeOfEncodeIsIdentity == c_pc = "decoded" => c_dec = c_op

(***************************************************************************)
(* The decoder on its own: Opcode::from applied to any 16-bit word.        *)
(***************************************************************************)
Words == 0..(U16 - 1)

DecodeInit ==
    /\ EmuInit
    /\ DrawIdle
    /\ c_op = NoneOp
    /\ c_word \in Words
    /\ c_dec = NoneOp
    /\ c_pc = "word"

SpecDecode == DecodeInit /\ [][Decode]_vars

\* The fields of a word, by arithmetic: the leading nibble, x, kk and n.
Family(w) == w \div 4096
FieldX(w) == (w \div 256) % 16
FieldKK(w) == w % 256
FieldN(w) == w % 16

\* The variant the opcode table gives the families with operands x, kk.
RegByteFamily(w) ==
    CASE Family(w) = 3 -> "SE"
      [] Family(w) = 4 -> "SNE"
      [] Family(w) = 6 -> "LD"
      [] Family(w) = 7 -> "ADD"
      [] Family(w) = 12 -> "RND"
      [] OTHER -> "None"

(***************************************************************************)
(* C11: a decoded word 0x3xkk, 0x4xkk, 0x6xkk, 0x7xkk or 0xCxkk has the    *)
(* register operand x = bits 8-11 and the immediate operand kk = bits 0-7; *)
(* 0xCxkk is RND with mask kk.                                             *)
(***************************************************************************)
C11_RegByteFieldsAreXAndKK ==
    (c_pc = "decoded" /\ RegByteFamily(c_word) # "None") =>
        c_dec = Op(RegByteFamily(c_word), FieldX(c_word), 0, FieldKK(c_word))

(***************************************************************************)
(* C12: a word decodes to None exactly when it matches no encoding of the  *)
(* opcode table.                                                           *)
(***************************************************************************)
MatchesNoEncoding(w) ==
    \/ Family(w) = 0 /\ w \notin {224, 238}
    \/ Family(w) \in {5, 9} /\ FieldN(w) # 0
    \/ Family(w) = 8 /\ FieldN(w) \notin (0..7) \cup {14}
    \/ Family(w) = 14 /\ FieldKK(w) \notin {158, 161}
    \/ Family(w) = 15 /\ FieldKK(w) \notin {7, 10, 21, 24, 30, 41, 51, 85, 101}

C12_NoneExactlyForUnlistedWords ==
    c_pc = "decoded" => (c_dec = NoneOp <=> MatchesNoEncoding(c_word))

\* 0x5121 was decoded, to None; 0x5120 was decoded, to SER V1, V2
C12_Witness ==
    /\ c_pc = "decoded"
    /\ c_word = 20769
    /\ c_dec = NoneOp

(***************************************************************************)
(* The register arithmetic on its own: a program  6x aa  6y bb  8xyK  is   *)
(* stored by store_bytes and run to its halt, for K one of ADDR, SUBR,     *)
(* SHR, SUBRN and SHL.                                                     *)
(***************************************************************************)
\* values of Vx around every carry, borrow and shifted-out bit
AluA ==
    {0, 1, 2, 5, 9, 14, 15, 16, 63, 64, 100, 126, 127, 128, 129, 200, 240,
     246, 247, 250, 253, 254, 255}
AluB == {0, 1, 2, 9, 127, 128, 129, 254, 255}
\* <<x, y>>: two registers, the flag register as the source, one register,
\* the flag register as the destination
AluRegs == {<<1, 2>>, <<3, 15>>, <<4, 4>>, <<15, 2>>}
\* the low nibble of 8xyK
AluKinds == {4, 5, 6, 7, 14}

AluProgram(x, a, y, b, k) == <<96 + x, a, 96 + y, b, 128 + x, 16 * y + k>>

\* store_bytes(&[0x60 + x, a, 0x60 + y, b, 0x80 + x, y << 4 | K])
AluStore ==
    /\ Loading
    /\ \E xy \in AluRegs, a \in AluA, b \in AluB, k \in AluKinds,
          oc \in BOOLEAN :
        Set(store_bytes(Emu, AluProgram(xy[1], a, xy[2], b, k), oc))
    /\ loaded' = TRUE
    /\ Did("store_bytes", NoneOp)
    /\ UNCHANGED <<mode, ncalls, frames, cvars, dvars>>

\* run(), once the program is stored
AluRun == last.kind = "store_bytes" /\ Run

AluNext == AluStore \/ AluRun \/ RunLoop

SpecAlu == Init /\ [][AluNext]_vars

\* The operands of the executed operation, before it: a = Vx, b = Vy.
PreVx == last.pre.cpu.regs[last.op.x]
PreVy == last.pre.cpu.regs[last.op.y]
Vx == cpu.regs[last.op.x]
VF == cpu.regs[15]
Flag(b) == IF b THEN 1 ELSE 0

\* 61 05 62 09 81 24 at 0x200, zeroes after it
AddProgramLoaded ==
    /\ WordAt(START_ADDR) = 24837 /\ WordAt(START_ADDR + 2) = 25097
    /\ WordAt(START_ADDR + 4) = 33060 /\ WordAt(START_ADDR + 6) = 0

(***************************************************************************)
(* C13: ADDR with destination x # 0xF leaves Vx = (a + b) mod 256 and      *)
(* VF = 1 if a + b > 255, else 0; the program 61 05 62 09 81 24 run to its *)
(* halt leaves V1 = 14 and VF = 0.                                         *)
(***************************************************************************)
C13_AddRegSumAndCarry ==
    /\ (ExecutedOp("ADDR") /\ last.op.x # 15) =>
            /\ Vx = (PreVx + PreVy) % 256
            /\ VF = Flag(PreVx + PreVy > 255)
    /\ (RunReturned /\ AddProgramLoaded) =>
            /\ cpu.regs[1] = 14
            /\ cpu.regs[15] = 0

\* 255 + 1: the sum wraps to 0 and the carry is set
C13_Witness ==
    /\ ExecutedOp("ADDR") /\ last.op.x = 1 /\ last.op.y = 2
    /\ PreVx = 255 /\ PreVy = 1
    /\ Vx = 0 /\ VF = 1

\* the scenario program has halted
C13_ScenarioHalted == RunReturned /\ AddProgramLoaded /\ cpu.regs[1] = 14

(***************************************************************************)
(* C14: with destination x # 0xF, SUBR leaves Vx = (a - b) mod 256 and     *)
(* VF = 1 iff a >= b; SUBRN leaves Vx = (b - a) mod 256 and VF = 1 iff     *)
(* b >= a.                                                                 *)
(***************************************************************************)
C14_SubRegDifferenceAndNoBorrow ==
    /\ (ExecutedOp("SUBR") /\ last.op.x # 15) =>
            /\ Vx = (PreVx - PreVy) % 256
            /\ VF = Flag(PreVx >= PreVy)
    /\ (ExecutedOp("SUBRN") /\ last.op.x # 15) =>
            /\ Vx = (PreVy - PreVx) % 256
            /\ VF = Flag(PreVy >= PreVx)

\* 1 - 2: the difference wraps to 255 and the flag is clear
C14_Witness ==
    /\ ExecutedOp("SUBR") /\ last.op.x = 1 /\ last.op.y = 2
    /\ PreVx = 1 /\ PreVy = 2
    /\ Vx = 255 /\ VF = 0

\* 2 - 1 by SUBRN of Vx = 1, Vy = 2: no borrow
C14_WitnessRev ==
    /\ ExecutedOp("SUBRN") /\ last.op.x = 1 /\ last.op.y = 2
    /\ PreVx = 1 /\ PreVy = 2
    /\ Vx = 1 /\ VF = 1

(***************************************************************************)
(* C15: with destination x # 0xF, SHR leaves Vx = a >> 1 and VF = bit 0 of *)
(* a; SHL leaves Vx = (a << 1) mod 256 and VF = bit 7 of a.                *)
(***************************************************************************)
C15_ShiftFlagIsBitShiftedOut ==
    /\ (ExecutedOp("SHR") /\ last.op.x # 15) =>
            /\ Vx = PreVx \div 2
            /\ VF = PreVx % 2
    /\ (ExecutedOp("SHL") /\ last.op.x # 15) =>
            /\ Vx = (PreVx * 2) % 256
            /\ VF = PreVx \div 128

(***************************************************************************)
(* Draw on its own: exec of DRW by a driver, up to MaxDraws times, from an *)
(* emulator whose registers, I, sprite memory and display are drawn from   *)
(* small sets.                                                             *)
(***************************************************************************)
MaxDraws == 2

\* values of Vx and Vy: inside, at the edge, beyond it, near the u8 limit
DrawXs == {0, 62, 100, 250}
DrawYs == {0, 31, 40, 250}
\* values of I: the sprite, the last cell of the memory
DrawIs == {768, MEM_SIZE - 1}
\* the bytes at 0x300
DrawSprites == { <<128>>, <<255, 129>>, <<60, 0, 195>> }
\* the display before the draws: blank, or with pixels lit
DrawScreens ==
    { ScreenNew,
      {<<0, 0>>, <<1, 0>>, <<0, 1>>, <<63, 31>>, <<36, 8>>, <<1, 31>>} }
\* DRW Vx, Vy, n; once with VF as Vx
DrawOps ==
    { Op("DRW", 1, 2, 0), Op("DRW", 1, 2, 1), Op("DRW", 1, 2, 3),
      Op("DRW", 1, 2, 15), Op("DRW", 15, 2, 2) }

\* The emulator with the sprite at 0x300 and 0xFF in the last cell.
DrawEmulator(vx, vy, i, sprite, pixels) ==
    LET m == MemStore(MemStoreArr(EmulatorNew, 768, sprite, FALSE),
                      MEM_SIZE - 1, 255)
    IN  [m EXCEPT !.cpu.regs[1] = vx, !.cpu.regs[2] = vy, !.cpu.i = i,
                  !.cpu.pc = START_ADDR, !.scr = pixels]

DrawInit ==
    /\ \E vx \in DrawXs, vy \in DrawYs, i \in DrawIs, sprite \in DrawSprites,
          pixels \in DrawScreens :
        LET e == DrawEmulator(vx, vy, i, sprite, pixels)
        IN  /\ cpu = e.cpu
            /\ mem = e.mem
            /\ scr = e.scr
            /\ kbd = e.kbd
            /\ panic = e.panic
            /\ last = [kind |-> "new", op |-> NoneOp, pre |-> e,
                       frames |-> << >>]
    /\ prev = last
    /\ mode = "idle"
    /\ loaded = FALSE
    /\ ncalls = 0
    /\ frames = << >>
    /\ CodecIdle

\* exec(DRW(x, y, n))
Draw ==
    /\ Callable /\ ncalls < MaxDraws
    /\ \E op \in DrawOps, oc \in BOOLEAN :
        /\ Set(exec(Emu, op, 0, oc))
        /\ Did("exec", op)
    /\ prev' = last
    /\ ncalls' = ncalls + 1
    /\ UNCHANGED <<mode, loaded, frames, cvars>>

SpecDraw == DrawInit /\ [][Draw]_vars

\* Bit k of a byte, bit 0 the least significant.
BitOf(byte, k) == (byte \div (2 ^ k)) % 2

\* The pixels the sprite of `op` has a set bit on, drawn from emulator e.
SpritePixels(e, op) ==
    { <<(e.cpu.regs[op.x] + c) % 64, (e.cpu.regs[op.y] + r) % 32>> :
        <<r, c>> \in
            { rc \in (0..(op.n - 1)) \X (0..7) :
                BitOf(Cell(e.mem.cells, e.cpu.i + rc[1]), 7 - rc[2]) = 1 } }

\* a xor b, of sets of lit pixels
XorPixels(a, b) == (a \ b) \cup (b \ a)

\* The display is the one before the operation with the sprite xor-ed in.
SpriteXored == scr = XorPixels(last.pre.scr, SpritePixels(last.pre, last.op))

(***************************************************************************)
(* C16: DRW never aborts, and xors bit (7 - c) of the byte at I + r into   *)
(* pixel ((Vx + c) mod 64, (Vy + r) mod 32) for r < n, c < 8, changing no  *)
(* other pixel.                                                            *)
(***************************************************************************)
C16_DrawXorsEachPixelAndNeverAborts ==
    (last.kind = "exec" /\ last.op.t = "DRW") =>
        /\ panic = NoPanic
        /\ SpriteXored

(***************************************************************************)
(* C17: after DRW, VF = 1 iff a pixel went from set to unset, and the      *)
(* whole sprite is drawn, the pixels after a collision included.           *)
(***************************************************************************)
C17_FlagIffSomePixelErased ==
    ExecutedOp("DRW") =>
        /\ VF = Flag(last.pre.scr \ scr # {})
        /\ SpriteXored

\* the first pixel of the sprite collided, and pixels after it were lit
C17_Witness ==
    /\ ExecutedOp("DRW")
    /\ last.pre.cpu.regs[last.op.x] = 0 /\ last.pre.cpu.regs[last.op.y] = 0
    /\ <<0, 0>> \in last.pre.scr \ scr
    /\ scr \ last.pre.scr # {}
    /\ VF = 1

(***************************************************************************)
(* C18: two draws of the same sprite at the same place (same I, memory,    *)
(* Vx, Vy, n) leave the display as it was before the first; from a blank   *)
(* display the second draw reports a collision if the sprite has a set bit.*)
(***************************************************************************)
SameDrawTwice ==
    /\ ExecutedOp("DRW")
    /\ prev.kind = "exec" /\ prev.op = last.op
    /\ last.pre.cpu.i = prev.pre.cpu.i
    /\ last.pre.mem = prev.pre.mem
    /\ last.pre.cpu.regs[last.op.x] = prev.pre.cpu.regs[last.op.x]
    /\ last.pre.cpu.regs[last.op.y] = prev.pre.cpu.regs[last.op.y]

C18_DrawTwiceRestoresDisplay ==
    SameDrawTwice =>
        /\ scr = prev.pre.scr
        /\ prev.pre.scr = {} =>
            (SpritePixels(prev.pre, prev.op) # {} => VF = 1)

\* a sprite that wraps past the right and the bottom edge, drawn twice on a
\* blank display
C18_Witness ==
    /\ SameDrawTwice
    /\ prev.pre.scr = {}
    /\ last.pre.cpu.regs[1] = 62 /\ last.pre.cpu.regs[2] = 31
    /\ last.op = Op("DRW", 1, 2, 3)
    /\ <<5, 0>> \in last.pre.scr
    /\ scr = {} /\ VF = 1

(***************************************************************************)
(* C19: no fetch and no executed operation reaches a memory read or write  *)
(* at an address >= 4096: the index of the memory array never panics.      *)
(***************************************************************************)
C19_MemoryAccessNeverFails == panic # IndexPanic

(***************************************************************************)
(* The timers on their own: DTSET V1, STSET V2 and tick() in any order, up *)
(* to MaxTimerCalls calls, with V1 and V2 drawn from small sets.           *)
(***************************************************************************)
MaxTimerCalls == 4

TimerValues == {0, 1, 2, 128, 255}
OtherTimerValues == {0, 1, 255}

TimerInit ==
    /\ \E v1 \in TimerValues, v2 \in OtherTimerValues :
        LET e == [EmulatorNew EXCEPT !.cpu.regs[1] = v1, !.cpu.regs[2] = v2]
        IN  /\ cpu = e.cpu
            /\ last = [kind |-> "new", op |-> NoneOp, pre |-> e,
                       frames |-> << >>]
    /\ mem = MemNew
    /\ scr = ScreenNew
    /\ kbd = KeyboardNew
    /\ panic = NoPanic
    /\ mode = "idle"
    /\ loaded = FALSE
    /\ ncalls = 0
    /\ frames = << >>
    /\ CodecIdle
    /\ DrawIdle

\* exec(DTSET(1)), exec(STSET(2))
TimerSet ==
    /\ Callable /\ ncalls < MaxTimerCalls
    /\ \E op \in {Op("DTSET", 1, 0, 0), Op("STSET", 2, 0, 0)},
          oc \in BOOLEAN :
        /\ Set(exec(Emu, op, 0, oc))
        /\ Did("exec", op)
    /\ ncalls' = ncalls + 1
    /\ UNCHANGED <<mode, loaded, frames, cvars, dvars>>

\* tick(); the pair it returns is kept in last.op
TimerTick ==
    /\ Callable /\ ncalls < MaxTimerCalls
    /\ Set(tick(Emu))
    /\ Did("tick", Op("None", TickRet(Emu)[1], TickRet(Emu)[2], 0))
    /\ ncalls' = ncalls + 1
    /\ UNCHANGED <<mode, loaded, frames, cvars, dvars>>

TimerNext == TimerSet \/ TimerTick

SpecTimers == TimerInit /\ [][TimerNext]_vars

SaturatingDec(t) == IF t >= 1 THEN t - 1 ELSE 0

(***************************************************************************)
(* C20: tick takes each timer t to max(t - 1, 0), the one independently of *)
(* the other, and returns the two new values; both timers stay in 0..255   *)
(* under any interleaving of tick, DTSET and STSET; a timer at 0 stays 0.  *)
(***************************************************************************)
C20_TickSaturatesAtZero ==
    /\ cpu.dt \in 0..255
    /\ cpu.st \in 0..255
    /\ last.kind = "tick" =>
        /\ cpu.dt = SaturatingDec(last.pre.cpu.dt)
        /\ cpu.st = SaturatingDec(last.pre.cpu.st)
        /\ <<last.op.x, last.op.y>> = <<cpu.dt, cpu.st>>
        /\ last.pre.cpu.dt = 0 => cpu.dt = 0
        /\ last.pre.cpu.st = 0 => cpu.st = 0

\* a tick with the delay timer at 0 and the sound timer at 255
C20_Witness ==
    /\ last.kind = "tick"
    /\ last.pre.cpu.dt = 0 /\ last.pre.cpu.st = 255
    /\ cpu.dt = 0 /\ cpu.st = 254
    /\ last.op.x = 0 /\ last.op.y = 254

(***************************************************************************)
(* The key hooks on their own, called by a driver that follows the hook    *)
(* protocol: it passes key_pressed the key it last reported down and has   *)
(* not released (or None), and calls key_released only to release it.      *)
(***************************************************************************)
MaxKeyCalls == 4

HookKeys == 0..(NKEYS - 1)

\* The key the driver holds: the one it reported last, unless released.
Held == IF last.kind = "key_pressed" THEN last.op.y ELSE -1

\* key_pressed(held, k)
KeyDownHook ==
    /\ Callable /\ ncalls < MaxKeyCalls
    /\ \E k \in HookKeys :
        /\ Set(key_pressed(Emu, Held, k))
        /\ Did("key_pressed", Op("None", Held, k, 0))
    /\ ncalls' = ncalls + 1
    /\ UNCHANGED <<mode, loaded, frames, cvars, dvars>>

\* key_released(), when a key is held
KeyUpHook ==
    /\ Callable /\ ncalls < MaxKeyCalls
    /\ Held >= 0
    /\ Set(key_released(Emu))
    /\ Did("key_released", NoneOp)
    /\ ncalls' = ncalls + 1
    /\ UNCHANGED <<mode, loaded, frames, cvars, dvars>>

KeysNext == KeyDownHook \/ KeyUpHook

SpecKeys == Init /\ [][KeysNext]_vars

\* The keys that are down.
DownKeys(e) == {k \in 0..(NKEYS - 1) : e.kbd[k]}

(***************************************************************************)
(* C21: a key-down for key k with k passed as the previously pressed key   *)
(* leaves every key state unchanged, however often it is repeated: k stays *)
(* down.                                                                   *)
(***************************************************************************)
C21_DuplicateKeyDownChangesNothing ==
    (last.kind = "key_pressed" /\ last.op.x = last.op.y) =>
        /\ kbd = last.pre.kbd
        /\ kbd[last.op.y]

\* the second duplicate key-down for key 5 in a row
C21_Witness ==
    /\ last.kind = "key_pressed" /\ last.op.x = 5 /\ last.op.y = 5
    /\ ncalls = 3
    /\ DownKeys(last.pre) = {5}
    /\ DownKeys(Emu) = {5}

(***************************************************************************)
(* C30: under the hook protocol at most one key is down after any sequence *)
(* of key-down and key-up calls: the key most recently reported pressed    *)
(* and not released.                                                       *)
(***************************************************************************)
C30_OnlyTheHeldKeyIsDown ==
    DownKeys(Emu) = IF Held >= 0 THEN {Held} ELSE {}

\* key 5 was reported while key 1 was held: only key 5 is down
C30_Witness ==
    /\ last.kind = "key_pressed" /\ last.op.x = 1 /\ last.op.y = 5
    /\ DownKeys(last.pre) = {1}
    /\ DownKeys(Emu) = {5}

\* the held key was released: no key is down
C30_WitnessReleased ==
    /\ last.kind = "key_released"
    /\ DownKeys(last.pre) = {15}
    /\ DownKeys(Emu) = {}

(***************************************************************************)
(* KEYSET on its own: a driver that toggles keys with key_pressed(None, k) *)
(* (several keys may be down), loads V1 and executes KEYSET.               *)
(***************************************************************************)
MaxWaitCalls == 4

WaitKeys == {0, 3, 7, 15}
WaitOps ==
    { Op("LD", 1, 0, 200), Op("KEYSET", 1, 0, 0), Op("KEYSET", 2, 0, 0) }

\* key_pressed(None, k)
WaitToggle ==
    /\ Callable /\ ncalls < MaxWaitCalls
    /\ \E k \in WaitKeys :
        /\ Set(key_pressed(Emu, -1, k))
        /\ Did("key_pressed", Op("None", -1, k, 0))
    /\ ncalls' = ncalls + 1
    /\ UNCHANGED <<mode, loaded, frames, cvars, dvars>>

\* exec(LD(1, 200)), exec(KEYSET(x))
WaitExec ==
    /\ Callable /\ ncalls < MaxWaitCalls
    /\ \E op \in WaitOps, oc \in BOOLEAN :
        /\ Set(exec(Emu, op, 0, oc))
        /\ Did("exec", op)
    /\ ncalls' = ncalls + 1
    /\ UNCHANGED <<mode, loaded, frames, cvars, dvars>>

WaitNext == WaitToggle \/ WaitExec

SpecWaitKey == Init /\ [][WaitNext]_vars

\* The least element of a non-empty set of numbers.
Lowest(S) == CHOOSE k \in S : \A j \in S : k <= j

(***************************************************************************)
(* C22: KEYSET Vx completes at once: with a key down Vx becomes the lowest *)
(* pressed key index, with no key down every register is unchanged; in     *)
(* both cases pc advances by 2.                                            *)
(***************************************************************************)
C22_WaitKeyReadsLowestKeyOrNothing ==
    (last.kind = "exec" /\ last.op.t = "KEYSET") =>
        /\ panic = NoPanic
        /\ cpu.pc = last.pre.cpu.pc + 2
        /\ IF DownKeys(last.pre) # {}
           THEN cpu.regs = [last.pre.cpu.regs EXCEPT
                                ![last.op.x] = Lowest(DownKeys(last.pre))]
           ELSE cpu.regs = last.pre.cpu.regs

\* keys 3 and 7 are down, V1 held 200: V1 becomes 3
C22_Witness ==
    /\ ExecutedOp("KEYSET") /\ last.op.x = 1
    /\ DownKeys(last.pre) = {3, 7}
    /\ last.pre.cpu.regs[1] = 200
    /\ cpu.regs[1] = 3

\* no key is down, V1 held 200: V1 is still 200
C22_WitnessNoKey ==
    /\ ExecutedOp("KEYSET") /\ last.op.x = 1
    /\ DownKeys(last.pre) = {}
    /\ cpu.regs[1] = 200

(***************************************************************************)
(* C23: an executed operation other than DRW and CLS leaves every pixel    *)
(* unchanged; no executed operation and no tick changes a key state.       *)
(***************************************************************************)
C23_OnlyDrawAndClearTouchDisplay ==
    /\ (Executed /\ last.op.t \notin {"DRW", "CLS"}) => scr = last.pre.scr
    /\ (Executed \/ last.kind = "tick") => kbd = last.pre.kbd

\* an operation other than DRW and CLS was executed on a lit display
C23_Witness ==
    /\ Executed /\ last.op.t \notin {"DRW", "CLS"}
    /\ last.pre.scr # {}
    /\ scr = last.pre.scr

\* an operation that reads the keyboard was executed with a key down
C23_WitnessKey ==
    /\ ExecutedOp("KEYSET")
    /\ DownKeys(last.pre) # {}
    /\ kbd = last.pre.kbd

(***************************************************************************)
(* C24: after store_instr / store of a list of words, word k (from 0) has  *)
(* its high byte at 0x200 + 2k and its low byte at 0x200 + 2k + 1, pc is   *)
(* 0x200, and a fetch at pc = 0x200 + 2k gives the decoding of that word.  *)
(***************************************************************************)
WordStored(k) ==
    LET a == START_ADDR + 2 * (k - 1)
        w == last.words[k]
    IN  /\ Cell(mem.cells, a) = w \div 256
        /\ Cell(mem.cells, a + 1) = w % 256
        /\ fetch([Emu EXCEPT !.cpu.pc = a]).cpu.instr = From(w)

C24_WordsStoredBigEndianAt0x200 ==
    last.kind \in {"store_instr", "store"} =>
        /\ panic = NoPanic
        /\ cpu.pc = START_ADDR
        /\ \A k \in 1..Len(last.words) : WordStored(k)

\* 6105 E19E 6109 was stored: 0x61 at 0x200, 0x9E at 0x203
C24_Witness ==
    /\ last.kind = "store_instr"
    /\ last.words = <<24837, 57758, 24841>>
    /\ Cell(mem.cells, 512) = 97 /\ Cell(mem.cells, 515) = 158
    /\ cpu.pc = 512

\* the words of store_instr_test's kind were stored by store, from operations
C24_WitnessStore ==
    /\ last.kind = "store"
    /\ Len(last.words) = 5
    /\ Cell(mem.cells, 512) = 34 /\ Cell(mem.cells, 513) = 4

\* a step after the store executed the first word
C24_WitnessStep ==
    /\ last.kind = "step" /\ last.pre.cpu.pc = START_ADDR
    /\ last.op = From(24837)

(***************************************************************************)
(* REGSSTORE and REGLOAD on their own: exec by a driver, up to MaxRegsCalls*)
(* calls, from an emulator whose registers, I and memory hold values.      *)
(***************************************************************************)
MaxRegsCalls == 2

\* values of I: inside the memory, 4 cells and 1 cell before its end
RegsIs == {768, MEM_SIZE - 4, MEM_SIZE - 1}
\* V0..VF before the calls
RegsFiles ==
    { [k \in 0..(NREGS - 1) |-> 10 + k],
      [k \in 0..(NREGS - 1) |-> 255 - (17 * k)] }
RegsOps ==
    { Op("REGSSTORE", 0, 0, 0), Op("REGSSTORE", 3, 0, 0),
      Op("REGSSTORE", 15, 0, 0), Op("REGLOAD", 0, 0, 0),
      Op("REGLOAD", 3, 0, 0), Op("REGLOAD", 15, 0, 0),
      Op("LD", 2, 0, 77) }

\* The emulator with 201..216 at 0x300 and 1..4 in the last four cells.
RegsEmulator(regs, i) ==
    LET m == MemStoreArr(
                MemStoreArr(EmulatorNew, 768,
                            [k \in 1..16 |-> 200 + k], FALSE),
                MEM_SIZE - 4, <<1, 2, 3, 4>>, FALSE)
    IN  [m EXCEPT !.cpu.regs = regs, !.cpu.i = i, !.cpu.pc = START_ADDR]

RegsInit ==
    /\ \E regs \in RegsFiles, i \in RegsIs :
        LET e == RegsEmulator(regs, i)
        IN  /\ cpu = e.cpu
            /\ mem = e.mem
            /\ last = [kind |-> "new", op |-> NoneOp, pre |-> e,
                       frames |-> << >>]
    /\ prev = last
    /\ scr = ScreenNew
    /\ kbd = KeyboardNew
    /\ panic = NoPanic
    /\ mode = "idle"
    /\ loaded = FALSE
    /\ ncalls = 0
    /\ frames = << >>
    /\ CodecIdle

\* exec(REGSSTORE(x)), exec(REGLOAD(x)), exec(LD(2, 77))
RegsExec ==
    /\ Callable /\ ncalls < MaxRegsCalls
    /\ \E op \in RegsOps, oc \in BOOLEAN :
        /\ Set(exec(Emu, op, 0, oc))
        /\ Did("exec", op)
    /\ prev' = last
    /\ ncalls' = ncalls + 1
    /\ UNCHANGED <<mode, loaded, frames, cvars>>

SpecRegs == RegsInit /\ [][RegsExec]_vars

\* The cells I..I+x of the executed operation.
RegsRange == last.pre.cpu.i..(last.pre.cpu.i + last.op.x)

\* Every cell outside S is as it was before the operation.
CellsUnchangedOutside(S) ==
    /\ mem.start_addr = last.pre.mem.start_addr
    /\ \A a \in (0..(MEM_SIZE - 1)) \ S :
        Cell(mem.cells, a) = Cell(last.pre.mem.cells, a)

(***************************************************************************)
(* C25: REGSSTORE x writes V0..Vx to the cells I..I+x and changes no other *)
(* cell, no register and not I; REGLOAD x sets V0..Vx from the cells       *)
(* I..I+x and changes no register above x and not I; REGSSTORE x followed  *)
(* by REGLOAD x with the same I leaves all registers as they were.         *)
(***************************************************************************)
C25_StoreRegsLoadRegsInclusive ==
    /\ ExecutedOp("REGSSTORE") =>
        /\ \A k \in 0..last.op.x :
            Cell(mem.cells, last.pre.cpu.i + k) = last.pre.cpu.regs[k]
        /\ CellsUnchangedOutside(RegsRange)
        /\ cpu.regs = last.pre.cpu.regs
        /\ cpu.i = last.pre.cpu.i
    /\ ExecutedOp("REGLOAD") =>
        /\ last.pre.cpu.i + last.op.x < MEM_SIZE =>
            \A k \in 0..last.op.x :
                cpu.regs[k] = Cell(last.pre.mem.cells, last.pre.cpu.i + k)
        /\ \A k \in (last.op.x + 1)..(NREGS - 1) :
            cpu.regs[k] = last.pre.cpu.regs[k]
        /\ cpu.i = last.pre.cpu.i
        /\ CellsUnchangedOutside({})
    /\ ( /\ ExecutedOp("REGLOAD")
         /\ prev.kind = "exec" /\ prev.op.t = "REGSSTORE"
         /\ prev.op.x = last.op.x ) =>
        cpu.regs = prev.pre.cpu.regs

\* REGSSTORE 3 wrote V0..V3 over 201..204 at 0x300 and left 205 after them
C25_Witness ==
    /\ ExecutedOp("REGSSTORE") /\ last.op.x = 3
    /\ last.pre.cpu.i = 768
    /\ Cell(last.pre.mem.cells, 771) = 204
    /\ Cell(mem.cells, 771) = 13
    /\ Cell(mem.cells, 772) = 205

\* REGLOAD 3 read 201..204 into V0..V3 and left V4
C25_WitnessLoad ==
    /\ ExecutedOp("REGLOAD") /\ last.op.x = 3
    /\ cpu.regs[3] = 204 /\ last.pre.cpu.regs[3] = 13
    /\ cpu.regs[4] = 14

\* REGSSTORE 15 then REGLOAD 15
C25_WitnessRoundTrip ==
    /\ ExecutedOp("REGLOAD") /\ last.op.x = 15
    /\ prev.kind = "exec" /\ prev.op = Op("REGSSTORE", 15, 0, 0)
    /\ cpu.regs = prev.pre.cpu.regs

(***************************************************************************)
(* The font on its own: a driver installs it with mem.store_font(base) or  *)
(* with Emulator::store_font() (base 0), then executes LD V1, IDIG V1 and  *)
(* BCD V1, up to MaxFontCalls calls.                                       *)
(***************************************************************************)
MaxFontCalls == 3

\* bases: 0, after another table, the program area, the last 80 cells, and
\* one cell too far
FontBases == {0, 80, 512, MEM_SIZE - 80, MEM_SIZE - 79}
FontOps ==
    { Op("LD", 1, 0, 3), Op("LD", 1, 0, 15), Op("LD", 1, 0, 255),
      Op("IDIG", 1, 0, 0), Op("BCD", 1, 0, 0) }

\* mem.store_font(base); store_font()
FontInstall ==
    /\ Callable /\ ncalls < MaxFontCalls
    /\ \E base \in FontBases, oc \in BOOLEAN :
        /\ \/ Set(MemStoreFont(Emu, base, oc))
           \/ base = 0 /\ Set(store_font(Emu, oc))
        /\ Did("store_font", Op("None", 0, 0, base))
    /\ prev' = last'
    /\ ncalls' = ncalls + 1
    /\ UNCHANGED <<mode, loaded, frames, cvars>>

\* exec(LD(1, d)), exec(IDIG(1)), exec(BCD(1))
FontExec ==
    /\ Callable /\ ncalls < MaxFontCalls
    /\ \E op \in FontOps, oc \in BOOLEAN :
        /\ Set(exec(Emu, op, 0, oc))
        /\ Did("exec", op)
    /\ ncalls' = ncalls + 1
    /\ UNCHANGED <<mode, loaded, frames, cvars, dvars>>

FontNext == FontInstall \/ FontExec

SpecFont == Init /\ [][FontNext]_vars

\* The base of the last completed installation.
FontBase == prev.op.n
FontInstalled == prev.kind = "store_font"

\* The five cells at base + 5 * d hold the rows of glyph d.
GlyphAt(d) ==
    /\ AddrOfFont(Emu, d) = FontBase + 5 * d
    /\ \A row \in 0..4 :
        Cell(mem.cells, FontBase + 5 * d + row) = FONT[d + 1][row + 1]

(***************************************************************************)
(* C26: once the font is installed at a base, glyph d is at base + 5 * d   *)
(* and its five rows are stored there, for every digit d; IDIG Vx sets I   *)
(* to base + 5 * Vx, also after other operations.                          *)
(***************************************************************************)
C26_GlyphAddressIsBasePlus5d ==
    /\ (last.kind = "store_font" /\ panic = NoPanic) =>
            \A d \in 0..15 : GlyphAt(d)
    /\ (FontInstalled /\ panic = NoPanic) =>
            \A d \in 0..15 : AddrOfFont(Emu, d) = FontBase + 5 * d
    /\ (FontInstalled /\ ExecutedOp("IDIG")) =>
            cpu.i = FontBase + 5 * last.pre.cpu.regs[last.op.x]

\* the font is at 0x200, V1 = 15: IDIG V1 sets I to 0x200 + 75
C26_Witness ==
    /\ FontInstalled /\ FontBase = 512
    /\ ExecutedOp("IDIG")
    /\ last.pre.cpu.regs[1] = 15
    /\ cpu.i = 587
    /\ Cell(mem.cells, 587) = 240 /\ Cell(mem.cells, 591) = 128

\* the font was just installed in the last 80 cells
C26_WitnessInstalled ==
    /\ last.kind = "store_font" /\ panic = NoPanic
    /\ FontBase = MEM_SIZE - 80
    /\ Cell(mem.cells, MEM_SIZE - 1) = 128

(***************************************************************************)
(* BCD on its own: exec of BCD V1 for every value of V1, with I inside the *)
(* memory and at its end.                                                  *)
(***************************************************************************)
MaxBcdCalls == 1

BcdValues == 0..(U8 - 1)
\* values of I: inside the memory, the last three cells, the last two
BcdIs == {768, MEM_SIZE - 3, MEM_SIZE - 2}

BcdInit ==
    /\ \E v \in BcdValues, i \in BcdIs :
        LET e == RegsEmulator(
                    [k \in 0..(NREGS - 1) |-> IF k = 1 THEN v ELSE 10 + k], i)
        IN  /\ cpu = e.cpu
            /\ mem = e.mem
            /\ last = [kind |-> "new", op |-> NoneOp, pre |-> e,
                       frames |-> << >>]
    /\ scr = ScreenNew
    /\ kbd = KeyboardNew
    /\ panic = NoPanic
    /\ mode = "idle"
    /\ loaded = FALSE
    /\ ncalls = 0
    /\ frames = << >>
    /\ CodecIdle
    /\ DrawIdle

\* exec(BCD(1))
Bcd ==
    /\ Callable /\ ncalls < MaxBcdCalls
    /\ \E oc \in BOOLEAN :
        /\ Set(exec(Emu, Op("BCD", 1, 0, 0), 0, oc))
        /\ Did("exec", Op("BCD", 1, 0, 0))
    /\ ncalls' = ncalls + 1
    /\ UNCHANGED <<mode, loaded, frames, cvars, dvars>>

SpecBcd == BcdInit /\ [][Bcd]_vars

\* The digit stored at I + k.
DigitAt(k) == Cell(mem.cells, last.pre.cpu.i + k)

(***************************************************************************)
(* C27: BCD Vx stores digits h, t, o at I, I+1, I+2 with 100h + 10t + o =  *)
(* Vx and each digit in 0..9, and leaves I and every register unchanged.   *)
(***************************************************************************)
C27_BcdDigitsOfVx ==
    ExecutedOp("BCD") =>
        /\ 100 * DigitAt(0) + 10 * DigitAt(1) + DigitAt(2) = PreVx
        /\ \A k \in 0..2 : DigitAt(k) \in 0..9
        /\ cpu.i = last.pre.cpu.i
        /\ cpu.regs = last.pre.cpu.regs

\* 145 gives 1, 4, 5
C27_Witness ==
    /\ ExecutedOp("BCD")
    /\ PreVx = 145
    /\ <<DigitAt(0), DigitAt(1), DigitAt(2)>> = <<1, 4, 5>>

(***************************************************************************)
(* display.rs, Screen::xor_bytes, and a driver that calls it on the        *)
(* emulator's display (scr is a pub field), up to MaxXorCalls times.       *)
(***************************************************************************)
\* byte_from_bools(&pixels[row][x..x + 8]): pixel x is bit 7
ByteFromBools(pixels, x, row) ==
    LET bit(i) == IF <<x + i, row>> \in pixels THEN 2 ^ (7 - i) ELSE 0
    IN  bit(0) + bit(1) + bit(2) + bit(3) + bit(4) + bit(5) + bit(6) + bit(7)

\* bools_from_byte(v): b[7 - x] = (1 << x) & v > 0
BoolsFromByte(v) == [i \in 0..7 |-> (v \div (2 ^ (7 - i))) % 2 = 1]

\* One iteration of the loop of xor_bytes: d = [pixels, overflow, panic].
\* pixels[y + bidx] panics outside the rows; get_mut(x..x + 8) is None when
\* the range leaves the row, and the row is then skipped.
RECURSIVE XorBytesFrom(_, _, _, _, _)
XorBytesFrom(d, x, y, bytes, bidx) ==
    IF d.panic # NoPanic \/ bidx >= Len(bytes) THEN d
    ELSE IF y + bidx >= ROWS THEN [d EXCEPT !.panic = IndexPanic]
    ELSE IF x + 8 > COLS THEN XorBytesFrom(d, x, y, bytes, bidx + 1)
    ELSE LET row == y + bidx
             pix_byte == ByteFromBools(d.pixels, x, row)
             xored == BitXor(pix_byte, bytes[bidx + 1])
             muts == BoolsFromByte(xored)
         IN  XorBytesFrom(
                [d EXCEPT
                    !.pixels = (@ \ {<<x + i, row>> : i \in 0..7})
                                \cup {<<x + i, row>> : i \in {j \in 0..7 : muts[j]}},
                    !.overflow = @ \/ BitAnd(pix_byte, xored) > 0],
                x, y, bytes, bidx + 1)

\* Screen::xor_bytes: the new pixels, the returned bool, the panic if any
ScrXorBytes(pixels, x, y, bytes) ==
    XorBytesFrom([pixels |-> pixels, overflow |-> FALSE, panic |-> NoPanic],
                 x, y, bytes, 0)

MaxXorCalls == 2

XorXs == {0, 1, 56, 57, 100}
XorYs == {0, 30, 31, 40}

\* scr.xor_bytes(x, y, bytes)
XorBytes ==
    /\ Callable /\ ncalls < MaxXorCalls
    /\ \E x \in XorXs, y \in XorYs, bytes \in DrawSprites :
        LET d == ScrXorBytes(scr, x, y, bytes)
        IN  /\ scr' = d.pixels
            /\ panic' = d.panic
            /\ last' = [kind |-> "xor_bytes", op |-> NoneOp, pre |-> Emu,
                        frames |-> frames, x |-> x, y |-> y,
                        bytes |-> bytes, ret |-> d.overflow]
    /\ ncalls' = ncalls + 1
    /\ UNCHANGED <<cpu, mem, kbd, mode, loaded, frames, cvars, dvars>>

SpecXorBytes == Init /\ [][XorBytes]_vars

\* The pixels the per-pixel draw of the bytes xors a set bit into: bit
\* (7 - c) of byte r goes to pixel ((x + c) mod 64, (y + r) mod 32).
BytesPixels ==
    { <<(last.x + rc[2]) % COLS, (last.y + rc[1]) % ROWS>> :
        rc \in { q \in (0..(Len(last.bytes) - 1)) \X (0..7) :
                    BitOf(last.bytes[q[1] + 1], 7 - q[2]) = 1 } }

\* What the per-pixel draw leaves and reports: the display with the bytes
\* xor-ed in, and whether a lit pixel was drawn over.
PerPixel ==
    [pixels |-> XorPixels(last.pre.scr, BytesPixels),
     ret |-> last.pre.scr \cap BytesPixels # {}]

(***************************************************************************)
(* C28: Screen::xor_bytes(x, y, bytes) never aborts, leaves the pixels the *)
(* per-pixel draw of the same bytes leaves, and returns true exactly when  *)
(* a touched pixel went from set to unset.                                 *)
(***************************************************************************)
C28_XorBytesAgreesWithPerPixelDraw ==
    last.kind = "xor_bytes" =>
        /\ panic = NoPanic
        /\ scr = PerPixel.pixels
        /\ last.ret = PerPixel.ret
        /\ last.ret = (last.pre.scr \ scr # {})

(***************************************************************************)
(* C29: with the flag register as the destination (x = 0xF), ADDR, SUBR,   *)
(* SUBRN, SHR and SHL leave VF holding the flag of the operation: the      *)
(* carry, the no-borrow, the bit shifted out.                              *)
(***************************************************************************)
C29_FlagSurvivesWhenDestinationIsVF ==
    /\ (ExecutedOp("ADDR") /\ last.op.x = 15) =>
            VF = Flag(PreVx + PreVy > 255)
    /\ (ExecutedOp("SUBR") /\ last.op.x = 15) =>
            VF = Flag(PreVx >= PreVy)
    /\ (ExecutedOp("SUBRN") /\ last.op.x = 15) =>
            VF = Flag(PreVy >= PreVx)
    /\ (ExecutedOp("SHR") /\ last.op.x = 15) =>
            VF = PreVx % 2
    /\ (ExecutedOp("SHL") /\ last.op.x = 15) =>
            VF = PreVx \div 128

=============================================================================
